---- MODULE Spec2Model ----
(***************************************************************************)
(* The journal module (js/journal.js): the in-memory lists userJournals    *)
(* and allJournals, the localStorage list 'localJournals' (the Fallback    *)
(* Store), the Firestore collection 'journals' (the remote store), and the *)
(* asynchronous handlers that create, update, delete and load journals.    *)
(*                                                                         *)
(* An async handler is split where it awaits: the step that issues the     *)
(* remote call, and the step that runs when the awaited promise settles.   *)
(* A request that lost its Promise.race against the timeout is not         *)
(* cancelled; it stays in `late` and may still be applied by the store.    *)
(*                                                                         *)
(* Ids are pairs <<prefix, n>>: the code only ever inspects the prefix.    *)
(* n is the number of the submit that produced the id, so the ids of the   *)
(* remote document and of the 'local-' record that stem from one submitted *)
(* form can be told to belong together.  Timestamps are the value of the   *)
(* logical clock `now`; updatedAt is not modelled.  localStorage is taken  *)
(* to hold what the module itself wrote (parseable, writable).  `message`   *)
(* is what the latest step passed to showMessage, if anything.  A pending  *)
(* call records the uid of the user who made it.                           *)
(***************************************************************************)
EXTENDS Integers, Sequences, FiniteSets, TLC

MaxOps == 3

MaxAuth == 2

MaxSubmits == 2

MaxDeletes == 1

MaxPending == 2

MaxLen == 2

Users == {"u1", "u2"}
NoUser == "null"
NoId == <<>>
NoData == [title |-> <<>>, content |-> <<>>, tags |-> <<>>]

(* Text is a sequence of characters.  String.prototype.trim, and the
   split(',').map(trim).filter(nonempty) of the tags field *)
isSpace(c) == c = " "

RECURSIVE trimStart(_)
trimStart(s) ==
  IF s # <<>> /\ isSpace(Head(s)) THEN trimStart(Tail(s)) ELSE s

RECURSIVE trimEnd(_)
trimEnd(s) ==
  IF s # <<>> /\ isSpace(s[Len(s)]) THEN trimEnd(SubSeq(s, 1, Len(s) - 1)) ELSE s

(* a trim that leaves the text as typed *)
trim_asTyped(s) == s

trim(s) == trimEnd(trimStart(s))

(* s.split(','): the pieces between the commas, empty pieces included *)
RECURSIVE splitFrom(_, _, _)
splitFrom(s, i, piece) ==
  IF i > Len(s) THEN <<piece>>
  ELSE IF s[i] = "," THEN <<piece>> \o splitFrom(s, i + 1, <<>>)
  ELSE splitFrom(s, i + 1, Append(piece, s[i]))

split(s) == splitFrom(s, 1, <<>>)

RECURSIVE mapTrim(_)
mapTrim(pieces) ==
  IF pieces = <<>> THEN <<>> ELSE <<trim(Head(pieces))>> \o mapTrim(Tail(pieces))

parseTags(tagsInput) ==
  IF tagsInput = <<>> THEN <<>>
  ELSE SelectSeq(mapTrim(split(tagsInput)), LAMBDA tag : tag # <<>>)

(* title, content and tags as handleJournalSubmit reads them from the form *)
readForm(raw) ==
  [title |-> trim(raw.title), content |-> trim(raw.content),
   tags |-> parseTags(trim(raw.tags))]

(* what the user types: into the empty form of createNewJournal, and over
   the old text in the form opened by editJournal *)
NewRaw == [title |-> <<" ", "T", "1">>, content |-> <<"C", "1", " ">>,
           tags |-> <<"x", ",", " ", "y">>]

EditedRaw == [title |-> <<"T", "2">>, content |-> <<"C", "2">>, tags |-> <<>>]

BlankRaw == [title |-> <<" ">>, content |-> <<"C", "1">>, tags |-> <<>>]

NewText == readForm(NewRaw)

EditedText == readForm(EditedRaw)

FormInputs(journalId) ==
  IF journalId = NoId THEN {NewRaw, BlankRaw} ELSE {EditedRaw, BlankRaw}

DocId(n) == <<"doc-", n>>

LocalId(n) == <<"local-", n>>

startsWith(id, prefix) == Len(id) > 0 /\ id[1] = prefix

(* the three built-in samples; their texts are cut to the leading letters
   ('The Art of Mindful Living' / 'Mindfulness ...' / 'mindfulness', ...) *)
SAMPLE_JOURNALS ==
  << [id |-> <<"sample-", 1>>, userId |-> "demo-user-1",
      title |-> <<"A", "r", "t">>, content |-> <<"M", "i">>,
      tags |-> << <<"m", "i">>, <<"w", "e">> >>, createdAt |-> 0],
     [id |-> <<"sample-", 2>>, userId |-> "demo-user-2",
      title |-> <<"E", "m">>, content |-> <<"C", "h">>,
      tags |-> << <<"c", "h">>, <<"g", "r">> >>, createdAt |-> 0],
     [id |-> <<"sample-", 3>>, userId |-> "demo-user-3",
      title |-> <<"P", "o">>, content |-> <<"G", "r">>,
      tags |-> << <<"g", "r">>, <<"h", "a">> >>, createdAt |-> 0] >>

VARIABLES currentUser, userJournals, allJournals, localJournals, remote,
          pending, late, formId, btnDisabled, display, message, ops, deletedSubs,
          lsCorrupt, fields, draft, debounceArmed, currentLanguage,
          authListener, missedAuth, recovery, authState, tracker

vars == <<currentUser, userJournals, allJournals, localJournals, remote,
          pending, late, formId, btnDisabled, display, message, ops, deletedSubs,
          lsCorrupt, fields, draft, debounceArmed, currentLanguage,
          authListener, missedAuth, recovery, authState, tracker>>

(* lsCorrupt: the text stored under 'localJournals' does not parse (then
   localJournals, the parsed list, is empty).  fields: what the inputs of
   #journalForm hold; draft: the item 'journal_drafts' of js/draft.js;
   debounceArmed: the 1 s debounce timer of the form's input listener runs;
   currentLanguage: accessibilityState.currentLanguage of js/accessibility.js;
   authListener: "importing" until setupAuthListener's import of js/auth.js
   settles, "registered" once its callback is in authListeners, "failed" when
   the import was rejected; missedAuth: what onAuthStateChanged reported
   while the callback was not registered ("none" when it reported nothing);
   recovery: how far recoverDraft of js/draft.js has got ("none": the page
   was not loaded with a stored draft); authState: the module state of
   js/auth.js with its localStorage items; tracker: the module state of
   js/tracker.js with its stored totals.
   The journal module's steps below leave these alone. *)
auxVars == <<lsCorrupt, fields, draft, debounceArmed, currentLanguage,
            authListener, missedAuth, recovery, authState, tracker>>

NoItem == "absent"

(* js/auth.js once loaded, on a browser whose localStorage has neither
   'isLoggedIn' nor 'userUid'.  timers: the listeners addAuthStateListener
   has a setTimeout(0) call pending for; registered, unsubscribed: the
   listeners passed to addAuthStateListener so far, and those whose
   unsubscribe function was called; called: the listener calls of the latest
   step; changes: how many auth-state changes the provider has reported. *)
AuthLoaded ==
  [currentUser |-> NoUser, authListeners |-> <<>>, timers |-> {},
   registered |-> {}, unsubscribed |-> {}, called |-> <<>>,
   isLoggedIn |-> NoItem, userUid |-> NoItem, changes |-> 0]

NoTime == -1

NoDoc == -1

(* js/tracker.js once loaded, on a first visit, with what it reads and writes
   outside the module.  Times are in seconds.  authUser: auth.currentUser of
   the provider; firestore: firebaseInitialized && db; clock: Date.now();
   sessionStart, pendingSeconds, statsTotal: the localStorage items
   'tracker_session_start', 'tracker_pending_seconds' and the total of
   'tracker_time_stats_<uid>'; docTotal: totalSeconds of today's timeSpent
   document; saves: the saveCurrentSession calls waiting at an await;
   tracked: the seconds that went by while isTracking; sessions: the sign-ins
   seen; nextSave: the saves started. *)
TrackerLoaded ==
  [isTracking |-> FALSE, currentSessionSeconds |-> 0, sessionStartTime |-> NoTime,
   lastSaveTime |-> NoTime, currentUserId |-> NoUser, authUser |-> NoUser,
   firestore |-> TRUE, clock |-> 0, sessionStart |-> NoTime, pendingSeconds |-> 0,
   statsTotal |-> 0, docTotal |-> NoDoc, saves |-> {}, tracked |-> 0,
   sessions |-> 0, nextSave |-> 0]

EmptyForm == [title |-> <<>>, content |-> <<>>, tags |-> <<>>]

NoDraft == <<>>

(* the user's actions so far; their number is the logical clock *)
now == ops.auth + ops.submit + ops.delete

CanDo(kind) ==
  /\ now < MaxOps
  /\ ops[kind] < (CASE kind = "auth" -> MaxAuth
                     [] kind = "submit" -> MaxSubmits
                     [] kind = "delete" -> MaxDeletes)

----------------------------------------------------------------------------
(* Helpers: array operations of the code *)

RECURSIVE findIndexFrom(_, _, _)
findIndexFrom(seq, id, i) ==
  IF i > Len(seq) THEN 0
  ELSE IF seq[i].id = id THEN i
  ELSE findIndexFrom(seq, id, i + 1)

findIndex(seq, id) == findIndexFrom(seq, id, 1)

Reverse(seq) == [i \in 1..Len(seq) |-> seq[Len(seq) + 1 - i]]

RemoveAt(seq, i) == SubSeq(seq, 1, i - 1) \o SubSeq(seq, i + 1, Len(seq))

Ids(seq) == {seq[i].id : i \in DOMAIN seq}

Journal(id, uid, d, t) ==
  [id |-> id, userId |-> uid, title |-> d.title, content |-> d.content,
   tags |-> d.tags, createdAt |-> t]

Call(op, uid, id, d, sub) ==
  [op |-> op, uid |-> uid, id |-> id, data |-> d, sub |-> sub]

(* { ...journals[i], title, content, tags, updatedAt } at findIndex, if any *)
patchEntry(seq, id, d) ==
  LET i == findIndex(seq, id) IN
  IF i = 0 THEN seq
  ELSE [seq EXCEPT ![i] = [seq[i] EXCEPT !.title = d.title,
                                          !.content = d.content,
                                          !.tags = d.tags]]

spliceById(seq, id) ==
  LET i == findIndex(seq, id) IN IF i = 0 THEN seq ELSE RemoveAt(seq, i)

filterOutId(seq, id) == SelectSeq(seq, LAMBDA j : j.id # id)

(* JSON text of a string: '"' and '\' are written with a leading '\' *)
RECURSIVE escape(_)
escape(s) ==
  IF s = <<>> THEN <<>>
  ELSE (IF Head(s) \in {"\"", "\\"} THEN <<"\\", Head(s)>> ELSE <<Head(s)>>)
         \o escape(Tail(s))

(* an unescape that reads the JSON text as it stands *)
unescape_verbatim(s) == s

RECURSIVE unescape(_)
unescape(s) ==
  IF s = <<>> THEN <<>>
  ELSE IF Head(s) = "\\" /\ Len(s) >= 2
    THEN <<s[2]>> \o unescape(SubSeq(s, 3, Len(s)))
  ELSE <<Head(s)>> \o unescape(Tail(s))

(* JSON.stringify / JSON.parse of the journal list: the strings are escaped
   and unescaped; a Date becomes its ISO string, which stands here for the
   same instant *)
JSONstringify(list) ==
  [i \in DOMAIN list |->
     [list[i] EXCEPT !.title = escape(@), !.content = escape(@),
                     !.tags = [k \in DOMAIN @ |-> escape(@[k])]]]

JSONparse(blob) ==
  [i \in DOMAIN blob |->
     [blob[i] EXCEPT !.title = unescape(@), !.content = unescape(@),
                     !.tags = [k \in DOMAIN @ |-> unescape(@[k])]]]

(* a saveJournalToLocalStorage that pushes the journal whether or not its id
   is in the list *)
saveJournalToLocalStorage_alwaysPush(ls, journal) ==
  IF lsCorrupt THEN ls
  ELSE JSONparse(JSONstringify(Append(ls, journal)))

(* ls is the parsed item 'localJournals'; the result is what a later
   JSON.parse of the item yields.  A parse error is caught and logged, and
   nothing is written. *)
saveJournalToLocalStorage(ls, journal) ==
  LET i == findIndex(ls, journal.id) IN
  IF lsCorrupt THEN ls
  ELSE JSONparse(JSONstringify(
         IF i > 0 THEN [ls EXCEPT ![i] = journal] ELSE Append(ls, journal)))

showMessage(text, type) == [text |-> text, type |-> type]

NoMessage == showMessage("", "none")

combinedJournals(all, ls) == all \o ls \o SAMPLE_JOURNALS

(* background loadUserJournals(): returns at once when nobody is signed in *)
startLoadUser(pend, user) ==
  IF user = NoUser THEN pend
  ELSE pend \cup {Call("loadUser", user, NoId, NoData, 0)}

----------------------------------------------------------------------------
Init ==
  /\ currentUser = NoUser
  /\ userJournals = <<>>
  /\ allJournals = <<>>
  /\ localJournals = <<>>
  /\ remote \in { <<>>, <<Journal(DocId(0), "u1", NewText, 0)>> }
  /\ pending = {}
  /\ late = {}
  /\ formId = NoId
  /\ btnDisabled = FALSE
  /\ display = <<>>
  /\ message = NoMessage
  /\ ops = [auth |-> 0, submit |-> 0, delete |-> 0]
  /\ deletedSubs = {}
  /\ lsCorrupt = FALSE
  /\ fields = EmptyForm
  /\ draft = NoDraft
  /\ debounceArmed = FALSE
  /\ currentLanguage = "en"
  /\ authListener = "registered"
  /\ missedAuth = "none"
  /\ recovery = "none"
  /\ authState = AuthLoaded
  /\ tracker = TrackerLoaded

(* setupAuthListener: the callback registered with addAuthStateListener *)
authStateListener(user) ==
  /\ CanDo("auth")
  /\ user # currentUser
  /\ user # NoUser => Cardinality(pending) + 2 <= MaxPending
  /\ ops' = [ops EXCEPT !.auth = @ + 1]
  /\ currentUser' = user
  /\ IF user # NoUser
     THEN /\ pending' = pending \cup {Call("loadUser", user, NoId, NoData, 0),
                                      Call("loadAll", NoUser, NoId, NoData, 0)}
          /\ display' = display
     ELSE /\ pending' = pending
          /\ display' = SAMPLE_JOURNALS
  /\ UNCHANGED <<userJournals, allJournals, localJournals, remote, late,
                 formId, btnDisabled, deletedSubs>>
  /\ message' = NoMessage

(* a loadUserJournals whose fallback read takes every record of the Fallback
   Store, whoever owns it *)
loadUserJournalsSettled_unfiltered(p, ok) ==
  /\ p \in pending
  /\ p.op = "loadUser"
  /\ pending' = pending \ {p}
  /\ IF ok
     THEN /\ userJournals' = Reverse(SelectSeq(remote, LAMBDA j : j.userId = p.uid))
          /\ message' = NoMessage
     ELSE IF lsCorrupt \/ (currentUser = NoUser /\ localJournals # <<>>)
     THEN /\ userJournals' = userJournals
          /\ message' = showMessage("Error loading your journals", "error")
     ELSE /\ userJournals' = localJournals
          /\ message' = NoMessage
  /\ display' = combinedJournals(allJournals, localJournals)
  /\ UNCHANGED <<currentUser, allJournals, localJournals, remote, late,
                 formId, btnDisabled, ops, deletedSubs>>

(* loadUserJournals, after `await getDocs(q)` settles (q was built with the
   uid of the user signed in when the load started) *)
loadUserJournalsSettled(p, ok) ==
  /\ p \in pending
  /\ p.op = "loadUser"
  /\ pending' = pending \ {p}
  /\ IF ok
     THEN /\ userJournals' = Reverse(SelectSeq(remote, LAMBDA j : j.userId = p.uid))
          /\ message' = NoMessage
     ELSE IF lsCorrupt \/ (currentUser = NoUser /\ localJournals # <<>>)
     THEN \* JSON.parse throws, or currentUser.uid throws inside the filter
          \* callback: catch (localError)
          /\ userJournals' = userJournals
          /\ message' = showMessage("Error loading your journals", "error")
     ELSE /\ userJournals' = SelectSeq(localJournals, LAMBDA j : j.userId = currentUser)
          /\ message' = NoMessage
  /\ display' = combinedJournals(allJournals, localJournals)
  /\ UNCHANGED <<currentUser, allJournals, localJournals, remote, late,
                 formId, btnDisabled, ops, deletedSubs>>

(* a loadAllJournals that shows a guest whatever the query returned, an empty
   list included *)
loadAllJournalsSettled_noSamples(p, ok) ==
  /\ p \in pending
  /\ p.op = "loadAll"
  /\ pending' = pending \ {p}
  /\ IF ok
     THEN /\ allJournals' = Reverse(remote)
          /\ display' = IF currentUser # NoUser
                        THEN combinedJournals(allJournals', localJournals)
                        ELSE allJournals'
     ELSE /\ allJournals' = allJournals
          /\ display' = IF currentUser = NoUser THEN SAMPLE_JOURNALS ELSE display
  /\ UNCHANGED <<currentUser, userJournals, localJournals, remote, late,
                 formId, btnDisabled, ops, deletedSubs>>
  /\ message' = NoMessage

(* loadAllJournals, after `await getDocs(q)` settles *)
loadAllJournalsSettled(p, ok) ==
  /\ p \in pending
  /\ p.op = "loadAll"
  /\ pending' = pending \ {p}
  /\ IF ok
     THEN /\ allJournals' = Reverse(remote)
          /\ display' = IF currentUser # NoUser
                        THEN combinedJournals(allJournals', localJournals)
                        ELSE IF Len(allJournals') = 0 THEN SAMPLE_JOURNALS
                        ELSE allJournals'
     ELSE /\ allJournals' = allJournals
          /\ display' = IF currentUser = NoUser THEN SAMPLE_JOURNALS ELSE display
  /\ UNCHANGED <<currentUser, userJournals, localJournals, remote, late,
                 formId, btnDisabled, ops, deletedSubs>>
  /\ message' = NoMessage

(* createNewJournal: clears the form and opens the modal *)
createNewJournal ==
  /\ formId' = NoId
  /\ btnDisabled' = FALSE
  /\ UNCHANGED <<currentUser, userJournals, allJournals, localJournals, remote,
                 pending, late, display, ops, deletedSubs>>
  /\ message' = NoMessage

(* editJournal: looks the journal up in userJournals, allJournals, then
   localStorage; opens the form only for the owner *)
editJournalLookup(journalId) ==
  IF findIndex(userJournals, journalId) > 0
    THEN <<userJournals[findIndex(userJournals, journalId)]>>
  ELSE IF findIndex(allJournals, journalId) > 0
    THEN <<allJournals[findIndex(allJournals, journalId)]>>
  ELSE IF findIndex(localJournals, journalId) > 0
    THEN <<localJournals[findIndex(localJournals, journalId)]>>
  ELSE <<>>

(* an editJournal that opens the form for whatever id the card carries *)
editJournal_opensAny(journalId) ==
  /\ formId' = journalId
  /\ btnDisabled' = FALSE
  /\ message' = NoMessage
  /\ UNCHANGED <<currentUser, userJournals, allJournals, localJournals, remote,
                 pending, late, display, ops, deletedSubs>>

editJournal(journalId) ==
  LET found == editJournalLookup(journalId) IN
  /\ IF found = <<>>
     THEN /\ message' = showMessage("Journal not found or has been deleted", "error")
          /\ UNCHANGED <<formId, btnDisabled>>
     ELSE IF found[1].userId # currentUser
     THEN /\ message' = showMessage("You can only edit your own journals", "error")
          /\ UNCHANGED <<formId, btnDisabled>>
     ELSE /\ formId' = journalId
          /\ btnDisabled' = FALSE
          /\ message' = NoMessage
  /\ UNCHANGED <<currentUser, userJournals, allJournals, localJournals, remote,
                 pending, late, display, ops, deletedSubs>>

(* a handleJournalSubmit that sends every update to the remote store first,
   whatever the prefix of the id *)
handleJournalSubmit_remoteFirst(raw) ==
  LET d == readForm(raw) IN
  IF currentUser = NoUser
  THEN /\ message' = showMessage("Please log in to create a journal", "error")
       /\ UNCHANGED <<currentUser, userJournals, allJournals, localJournals,
                      remote, pending, late, formId, btnDisabled, display, ops, deletedSubs>>
  ELSE IF d.title = <<>> \/ d.content = <<>>
  THEN /\ message' = showMessage("Please fill in both title and content", "error")
       /\ UNCHANGED <<currentUser, userJournals, allJournals, localJournals,
                      remote, pending, late, formId, btnDisabled, display, ops, deletedSubs>>
  ELSE
  /\ ~btnDisabled
  /\ CanDo("submit")
  /\ Cardinality(pending) < MaxPending
  /\ ops' = [ops EXCEPT !.submit = @ + 1]
  /\ pending' = pending \cup
       { IF formId # NoId
         THEN Call("update", currentUser, formId, d, 0)
         ELSE Call("create", currentUser, NoId, d, now') }
  /\ btnDisabled' = TRUE
  /\ message' = NoMessage
  /\ UNCHANGED <<localJournals, userJournals, display, formId>>
  /\ UNCHANGED <<currentUser, allJournals, remote, late, deletedSubs>>

(* handleJournalSubmit up to its first await.  An update of a 'local-' id
   has no await and runs to the end of the handler here. *)
handleJournalSubmit(raw) ==
  LET d == readForm(raw) IN
  IF currentUser = NoUser
  THEN /\ message' = showMessage("Please log in to create a journal", "error")
       /\ UNCHANGED <<currentUser, userJournals, allJournals, localJournals,
                      remote, pending, late, formId, btnDisabled, display, ops, deletedSubs>>
  ELSE IF d.title = <<>> \/ d.content = <<>>
  THEN /\ message' = showMessage("Please fill in both title and content", "error")
       /\ UNCHANGED <<currentUser, userJournals, allJournals, localJournals,
                      remote, pending, late, formId, btnDisabled, display, ops, deletedSubs>>
  ELSE
  /\ ~btnDisabled
  /\ CanDo("submit")
  /\ Cardinality(pending) < MaxPending
  /\ ops' = [ops EXCEPT !.submit = @ + 1]
  /\ IF formId # NoId /\ startsWith(formId, "local-")
     THEN /\ localJournals' = saveJournalToLocalStorage(localJournals,
                                  Journal(formId, currentUser, d, now'))
          /\ userJournals' = patchEntry(userJournals, formId, d)
          /\ display' = combinedJournals(allJournals, localJournals')
          /\ message' = showMessage("Journal updated locally!", "success")
          /\ pending' = startLoadUser(pending, currentUser)
          /\ formId' = NoId
          /\ btnDisabled' = FALSE
     ELSE /\ pending' = pending \cup
               { IF formId # NoId
                 THEN Call("update", currentUser, formId, d, 0)
                 ELSE Call("create", currentUser, NoId, d, now') }
          /\ btnDisabled' = TRUE
          /\ message' = NoMessage
          /\ UNCHANGED <<localJournals, userJournals, display, formId>>
  /\ UNCHANGED <<currentUser, allJournals, remote, late, deletedSubs>>

(* outer catch of handleJournalSubmit: reached when currentUser.uid throws *)
submitThrows == currentUser = NoUser

(* handleJournalSubmit, create branch, after Promise.race([addDoc, timeout])
   settles.  outcome: "ok" addDoc resolved, "error" addDoc rejected,
   "timeout" the 3 s timer won and addDoc is still on its way. *)
createSettled(p, outcome) ==
  /\ p \in pending
  /\ p.op = "create"
  /\ remote' = IF outcome = "ok"
               THEN Append(remote, Journal(DocId(p.sub), p.uid, p.data, now))
               ELSE remote
  /\ late' = IF outcome = "timeout" THEN late \cup {p} ELSE late
  /\ IF submitThrows
     THEN /\ message' = showMessage("Error saving journal", "error")
          /\ pending' = pending \ {p}
          /\ UNCHANGED <<userJournals, localJournals, display>>
     ELSE IF outcome = "ok"
     THEN /\ userJournals' =
               <<Journal(DocId(p.sub), currentUser, p.data, now)>> \o userJournals
          /\ display' = combinedJournals(allJournals, localJournals)
          /\ message' = showMessage("Journal created successfully!", "success")
          /\ pending' = startLoadUser(pending \ {p}, currentUser)
          /\ UNCHANGED localJournals
     ELSE LET newJournal == Journal(LocalId(p.sub), currentUser, p.data, now) IN
          /\ localJournals' = saveJournalToLocalStorage(localJournals, newJournal)
          /\ userJournals' = <<newJournal>> \o userJournals
          /\ display' = combinedJournals(allJournals, localJournals')
          /\ message' = showMessage("Journal saved locally! Will sync when online.", "success")
          /\ pending' = startLoadUser(pending \ {p}, currentUser)
  /\ formId' = NoId
  /\ btnDisabled' = FALSE
  /\ UNCHANGED <<currentUser, allJournals, ops, deletedSubs>>

(* updateDoc fails for a document that does not exist *)
remoteUpdate(store, id, d) == patchEntry(store, id, d)

(* handleJournalSubmit, update branch of a non-'local-' id, after
   Promise.race([updateJournal, timeout]) settles *)
updateSettled(p, outcome) ==
  /\ p \in pending
  /\ p.op = "update"
  /\ outcome = "ok" => findIndex(remote, p.id) > 0
  /\ remote' = IF outcome = "ok" THEN remoteUpdate(remote, p.id, p.data) ELSE remote
  /\ late' = IF outcome = "timeout" THEN late \cup {p} ELSE late
  /\ IF outcome = "ok"
     THEN /\ userJournals' = patchEntry(userJournals, p.id, p.data)
          /\ allJournals' = patchEntry(allJournals, p.id, p.data)
          /\ display' = combinedJournals(allJournals', localJournals)
          /\ message' = showMessage("Journal updated successfully!", "success")
          /\ pending' = startLoadUser(pending \ {p}, currentUser)
          /\ UNCHANGED localJournals
     ELSE IF submitThrows
     THEN /\ message' = showMessage("Error saving journal", "error")
          /\ pending' = pending \ {p}
          /\ UNCHANGED <<userJournals, allJournals, localJournals, display>>
     ELSE /\ localJournals' = saveJournalToLocalStorage(localJournals,
                                  Journal(p.id, currentUser, p.data, now))
          /\ userJournals' = patchEntry(userJournals, p.id, p.data)
          /\ allJournals' = spliceById(allJournals, p.id)
          /\ display' = combinedJournals(allJournals', localJournals')
          /\ message' = showMessage("Journal updated locally! Will sync when online.", "success")
          /\ pending' = startLoadUser(pending \ {p}, currentUser)
  /\ formId' = NoId
  /\ btnDisabled' = FALSE
  /\ UNCHANGED <<currentUser, ops, deletedSubs>>

(* a request that lost its race reaches the store after all *)
lateApplied(w) ==
  /\ w \in late
  /\ late' = late \ {w}
  /\ remote' = IF w.op = "create"
               THEN Append(remote, Journal(DocId(w.sub), w.uid, w.data, now))
               ELSE remoteUpdate(remote, w.id, w.data)
  /\ UNCHANGED <<currentUser, userJournals, allJournals, localJournals, pending,
                 formId, btnDisabled, display, ops, deletedSubs>>
  /\ message' = NoMessage

(* ... or never does *)
lateDropped(w) ==
  /\ w \in late
  /\ late' = late \ {w}
  /\ UNCHANGED <<currentUser, userJournals, allJournals, localJournals, remote,
                 pending, formId, btnDisabled, display, ops, deletedSubs>>
  /\ message' = NoMessage

(* a deleteJournal whose 'local-' branch writes an empty list to the Fallback
   Store *)
deleteJournal_emptiesStore(journalId) ==
  /\ CanDo("delete")
  /\ Cardinality(pending) < MaxPending
  /\ ops' = [ops EXCEPT !.delete = @ + 1]
  /\ IF startsWith(journalId, "local-") /\ lsCorrupt
     THEN /\ message' = showMessage("Error deleting journal from local storage", "error")
          /\ UNCHANGED <<localJournals, userJournals, display, deletedSubs, pending>>
     ELSE IF startsWith(journalId, "local-")
     THEN /\ localJournals' = <<>>
          /\ userJournals' = filterOutId(userJournals, journalId)
          /\ display' = combinedJournals(allJournals, localJournals')
          /\ message' = showMessage("Journal deleted successfully", "success")
          /\ deletedSubs' = deletedSubs \cup {journalId[2]}
          /\ UNCHANGED pending
     ELSE /\ pending' = pending \cup {Call("delete", currentUser, journalId, NoData, 0)}
          /\ message' = NoMessage
          /\ UNCHANGED <<localJournals, userJournals, display, deletedSubs>>
  /\ UNCHANGED <<currentUser, allJournals, remote, late, formId, btnDisabled>>

(* deleteJournal up to its await (confirm() answered yes).  A 'local-' id is
   removed from localStorage and the handler ends here. *)
deleteJournal(journalId) ==
  /\ CanDo("delete")
  /\ Cardinality(pending) < MaxPending
  /\ ops' = [ops EXCEPT !.delete = @ + 1]
  /\ IF startsWith(journalId, "local-") /\ lsCorrupt
     THEN \* JSON.parse throws: catch (localError)
          /\ message' = showMessage("Error deleting journal from local storage", "error")
          /\ UNCHANGED <<localJournals, userJournals, display, deletedSubs, pending>>
     ELSE IF startsWith(journalId, "local-")
     THEN /\ localJournals' = filterOutId(localJournals, journalId)
          /\ userJournals' = filterOutId(userJournals, journalId)
          /\ display' = combinedJournals(allJournals, localJournals')
          /\ message' = showMessage("Journal deleted successfully", "success")
          /\ deletedSubs' = deletedSubs \cup {journalId[2]}
          /\ UNCHANGED pending
     ELSE /\ pending' = pending \cup {Call("delete", currentUser, journalId, NoData, 0)}
          /\ message' = NoMessage
          /\ UNCHANGED <<localJournals, userJournals, display, deletedSubs>>
  /\ UNCHANGED <<currentUser, allJournals, remote, late, formId, btnDisabled>>

(* a deleteJournal that falls back to a local deletion when deleteDoc fails *)
deleteSettled_silentFallback(p, ok) ==
  /\ p \in pending
  /\ p.op = "delete"
  /\ pending' = pending \ {p}
  /\ remote' = IF ok THEN filterOutId(remote, p.id) ELSE remote
  /\ userJournals' = filterOutId(userJournals, p.id)
  /\ display' = combinedJournals(allJournals, localJournals)
  /\ message' = IF ok THEN showMessage("Journal deleted successfully", "success")
                ELSE showMessage("Error deleting journal", "error")
  /\ deletedSubs' = deletedSubs \cup {p.id[2]}
  /\ UNCHANGED <<currentUser, allJournals, localJournals, late, formId,
                 btnDisabled, ops>>

(* deleteJournal after `await deleteDoc(...)` settles *)
deleteSettled(p, ok) ==
  /\ p \in pending
  /\ p.op = "delete"
  /\ pending' = pending \ {p}
  /\ IF ok
     THEN /\ remote' = filterOutId(remote, p.id)
          /\ userJournals' = filterOutId(userJournals, p.id)
          /\ display' = combinedJournals(allJournals, localJournals)
          /\ message' = showMessage("Journal deleted successfully", "success")
          /\ deletedSubs' = deletedSubs \cup {p.id[2]}
     ELSE /\ message' = showMessage("Error deleting journal", "error")
          /\ UNCHANGED <<remote, userJournals, display, deletedSubs>>
  /\ UNCHANGED <<currentUser, allJournals, localJournals, late, formId,
                 btnDisabled, ops>>

Outcomes == {"ok", "error", "timeout"}

(* ids a viewer can name: everything shown or held in memory *)
KnownIds ==
  Ids(userJournals) \cup Ids(allJournals) \cup Ids(localJournals)
    \cup Ids(SAMPLE_JOURNALS) \cup Ids(display)

(* ids whose card can carry a delete button for a signed-in user *)
DeletableIds == Ids(userJournals) \cup Ids(allJournals) \cup Ids(localJournals)

Next ==
  \/ \E u \in Users \cup {NoUser} : authStateListener(u) /\ UNCHANGED auxVars
  \/ \E p \in pending, ok \in BOOLEAN :
       loadUserJournalsSettled(p, ok) /\ UNCHANGED auxVars
  \/ \E p \in pending, ok \in BOOLEAN :
       loadAllJournalsSettled(p, ok) /\ UNCHANGED auxVars
  \/ createNewJournal /\ UNCHANGED auxVars
  \/ \E id \in KnownIds : editJournal(id) /\ UNCHANGED auxVars
  \/ \E raw \in FormInputs(formId) : handleJournalSubmit(raw) /\ UNCHANGED auxVars
  \/ \E p \in pending, o \in Outcomes : createSettled(p, o) /\ UNCHANGED auxVars
  \/ \E p \in pending, o \in Outcomes : updateSettled(p, o) /\ UNCHANGED auxVars
  \/ \E w \in late : lateApplied(w) /\ UNCHANGED auxVars
  \/ \E w \in late : lateDropped(w) /\ UNCHANGED auxVars
  \/ \E id \in DeletableIds : deleteJournal(id) /\ UNCHANGED auxVars
  \/ \E p \in pending, ok \in BOOLEAN : deleteSettled(p, ok) /\ UNCHANGED auxVars

Spec == Init /\ [][Next]_vars

(* The create and the update are awaited through Promise.race with a
   setTimeout of 3 s / 5 s: whatever the store does, the race settles.
   getDocs and deleteDoc are awaited bare, so nothing forces them to settle. *)
LiveSpec ==
  /\ Spec
  /\ WF_vars(\E p \in pending, o \in Outcomes :
               createSettled(p, o) /\ UNCHANGED auxVars)
  /\ WF_vars(\E p \in pending, o \in Outcomes :
               updateSettled(p, o) /\ UNCHANGED auxVars)

----------------------------------------------------------------------------
(* Vocabulary of the properties *)

Count(seq, id) == Cardinality({i \in DOMAIN seq : seq[i].id = id})

sameText(j, d) == j.title = d.title /\ j.content = d.content /\ j.tags = d.tags

holdsText(seq, d) == \E i \in DOMAIN seq : sameText(seq[i], d)

holdsTextAt(seq, id, d) == \E i \in DOMAIN seq : seq[i].id = id /\ sameText(seq[i], d)

Failures == {"error", "timeout"}

(* userId of the stored journal with this id; "absent" when no tier has it *)
ownerOf(id) ==
  IF findIndex(remote, id) > 0 THEN remote[findIndex(remote, id)].userId
  ELSE IF findIndex(localJournals, id) > 0
    THEN localJournals[findIndex(localJournals, id)].userId
  ELSE "absent"

foreignTo(id, uid) == ownerOf(id) \notin {uid, "absent"}

tiers == <<remote, localJournals, userJournals, allJournals>>

(* a journal stored in the Fallback Store under a remote id *)
downgraded(id) == id \in Ids(localJournals) /\ ~startsWith(id, "local-")

----------------------------------------------------------------------------
(* C1: whenever the create branch of handleJournalSubmit settles, userJournals
   has gained the submitted journal, and its id has the 'local-' prefix
   exactly when the remote create did not answer in time (timeout or error) *)
C1_CreateLandsInUserJournals ==
  [][\A p \in pending, o \in Outcomes :
       createSettled(p, o) =>
         \E i \in DOMAIN userJournals' :
           /\ userJournals'[i].id \notin Ids(userJournals)
           /\ sameText(userJournals'[i], p.data)
           /\ startsWith(userJournals'[i].id, "local-") <=> (o # "ok")]_vars

(* C2: when the update of a journal held by the remote store settles with a
   timeout or an error, its id is then once in the merged display, as the
   Fallback Store record, and not in allJournals *)
C2_DowngradeOnFailedUpdate ==
  [][\A p \in pending, o \in Failures :
       (updateSettled(p, o) /\ findIndex(remote, p.id) > 0) =>
         /\ Count(combinedJournals(allJournals', localJournals'), p.id) = 1
         /\ p.id \in Ids(localJournals')
         /\ p.id \notin Ids(allJournals')]_vars

(* C3: the merged display list (allJournals, then the Fallback Store, then the
   samples) never holds a journal id twice *)
C3_NoDuplicateDisplay ==
  \A id \in Ids(combinedJournals(allJournals, localJournals)) :
    Count(combinedJournals(allJournals, localJournals), id) = 1

(* C4: a delete or an update made by a caller who is not the journal's owner
   changes neither the remote store, nor the Fallback Store, nor userJournals,
   nor allJournals *)
C4_OwnerOnlyMutation ==
  [][/\ \A id \in DeletableIds :
          (deleteJournal(id) /\ foreignTo(id, currentUser)) => UNCHANGED tiers
     /\ \A p \in pending :
          (deleteSettled(p, TRUE) /\ foreignTo(p.id, p.uid)) => UNCHANGED tiers
     /\ \A raw \in FormInputs(formId) :
          (handleJournalSubmit(raw) /\ formId # NoId /\ foreignTo(formId, currentUser))
            => UNCHANGED tiers
     /\ \A p \in pending, o \in Outcomes :
          (updateSettled(p, o) /\ foreignTo(p.id, p.uid)) => UNCHANGED tiers]_vars

(* C5: no submitted form is stored both as a remote document and as a 'local-'
   record of the Fallback Store *)
C5_OneNamespacePerCreate ==
  \A r \in Ids(remote), l \in Ids(localJournals) :
    ~(startsWith(l, "local-") /\ l[2] = r[2])

(* C6: a create or update that lost its race and reaches the remote store later
   never adds a journal the user has deleted *)
C6_NoResurrection ==
  [][\A w \in late :
       lateApplied(w) =>
         \A i \in DOMAIN remote' :
           remote'[i].id[2] \in deletedSubs => remote'[i].id \in Ids(remote)]_vars

(* C7: when deleteJournal is called on an id without the 'local-' prefix and
   the remote delete fails, the error is shown and userJournals, allJournals
   and the Fallback Store stay as they were, both while deleteDoc is awaited
   and when it has failed *)
C7_DeleteFailureKeepsState ==
  [][/\ \A id \in DeletableIds :
          (deleteJournal(id) /\ ~startsWith(id, "local-")) =>
            UNCHANGED <<userJournals, allJournals, localJournals>>
     /\ \A p \in pending :
          deleteSettled(p, FALSE) =>
            /\ message'.type = "error"
            /\ UNCHANGED <<userJournals, allJournals, localJournals>>]_vars

C7_Witness ==
  /\ message = showMessage("Error deleting journal", "error")
  /\ userJournals # <<>>
  /\ allJournals # <<>>

(* C8: after a create or update that ends with a success message, the view
   rendered by the call shows the journal with the submitted title, content
   and tags *)
C8_ViewShowsTheWrite ==
  [][/\ \A p \in pending, o \in Outcomes :
          (createSettled(p, o) /\ message'.type = "success")
            => holdsText(display', p.data)
     /\ \A p \in pending, o \in Outcomes :
          (updateSettled(p, o) /\ message'.type = "success")
            => holdsTextAt(display', p.id, p.data)
     /\ \A raw \in FormInputs(formId) :
          (handleJournalSubmit(raw) /\ message'.type = "success")
            => holdsTextAt(display', formId, readForm(raw))]_vars

(* C9: once a journal is downgraded (held by the Fallback Store under its remote
   id), no step writes its remote document or brings it into allJournals from
   the remote store again *)
C9_DowngradeIsFinal ==
  [][\A id \in Ids(localJournals) :
       downgraded(id) =>
         /\ findIndex(remote', id) > 0 =>
              /\ findIndex(remote, id) > 0
              /\ remote'[findIndex(remote', id)] = remote[findIndex(remote, id)]
         /\ id \in Ids(allJournals') => id \in Ids(allJournals)]_vars

(* C10: a create or update whose remote call fails (timeout or error) ends with
   the journal in the Fallback Store and a success message *)
C10_FailureEndsInFallback ==
  [][/\ \A p \in pending, o \in Failures :
          createSettled(p, o) =>
            message'.type = "success" /\ holdsText(localJournals', p.data)
     /\ \A p \in pending, o \in Failures :
          updateSettled(p, o) =>
            message'.type = "success" /\ holdsTextAt(localJournals', p.id, p.data)]_vars

----------------------------------------------------------------------------
(* The fallback tier on its own: journals whose texts hold the characters
   JSON escapes are written with saveJournalToLocalStorage and read back by
   the catch branch of loadUserJournals. *)
RoundTripChars == {"a", "\"", "\\"}

RoundTripTexts == UNION {[1..k -> RoundTripChars] : k \in 1..MaxLen}

RoundTripJournals(uid) ==
  { Journal(LocalId(k), uid,
            [title |-> t, content |-> t \o <<"\"">>, tags |-> <<t, <<"a", "\\">> >>],
            k) : k \in 1..2, t \in RoundTripTexts }

RoundTripInit ==
  /\ currentUser \in Users
  /\ userJournals = <<>>
  /\ allJournals = <<>>
  /\ localJournals \in { <<>>, <<Journal(LocalId(0), "u2", NewText, 0)>> }
  /\ remote = <<>>
  /\ pending = {Call("loadUser", currentUser, NoId, NoData, 0)}
  /\ late = {}
  /\ formId = NoId
  /\ btnDisabled = FALSE
  /\ display = <<>>
  /\ message = NoMessage
  /\ ops = [auth |-> 1, submit |-> 0, delete |-> 0]
  /\ deletedSubs = {}
  /\ lsCorrupt = FALSE
  /\ fields = EmptyForm
  /\ draft = NoDraft
  /\ debounceArmed = FALSE
  /\ currentLanguage = "en"
  /\ authListener = "registered"
  /\ missedAuth = "none"
  /\ recovery = "none"
  /\ authState = AuthLoaded
  /\ tracker = TrackerLoaded

(* one call of saveJournalToLocalStorage(journal) *)
fallbackWrite(journal) ==
  /\ pending # {}
  /\ localJournals' = saveJournalToLocalStorage(localJournals, journal)
  /\ UNCHANGED <<currentUser, userJournals, allJournals, remote, pending, late,
                 formId, btnDisabled, display, message, ops, deletedSubs>>

RoundTripNext ==
  \/ \E j \in RoundTripJournals(currentUser) : fallbackWrite(j) /\ UNCHANGED auxVars
  \/ \E p \in pending : loadUserJournalsSettled(p, FALSE) /\ UNCHANGED auxVars

RoundTripSpec == RoundTripInit /\ [][RoundTripNext]_vars

----------------------------------------------------------------------------
(* The translation cache: translateJournal applied to the journal objects of
   userJournals.  A journal object carries its cache in the field
   `translations`, a map from language code to {title, content, tags}. *)
Langs == {"en", "es", "fr"}

(* placeholders[fromLang][toLang], or `[${toLang.toUpperCase()}] ` *)
marker(toLang) ==
  CASE toLang = "en" -> <<"[", "E", "N", "]", " ">>
    [] toLang = "es" -> <<"[", "E", "S", "]", " ">>
    [] toLang = "fr" -> <<"[", "F", "R", "]", " ">>

translateText(text, fromLang, toLang) ==
  IF text = <<>> \/ fromLang = toLang THEN text ELSE marker(toLang) \o text

synthesize(journal, currentLang, targetLang) ==
  [title |-> translateText(journal.title, currentLang, targetLang),
   content |-> translateText(journal.content, currentLang, targetLang),
   tags |-> [k \in DOMAIN journal.tags |->
               translateText(journal.tags[k], currentLang, targetLang)]]

withTranslation(journal, lang, translation) ==
  [journal EXCEPT !.translations =
     [l \in DOMAIN @ \cup {lang} |-> IF l = lang THEN translation ELSE @[l]]]

(* a translateJournal that builds the translation anew on every call, from the
   text the cache holds *)
translateJournal_rebuild(journal, targetLang, currentLang) ==
  IF currentLang = targetLang \/ startsWith(journal.id, "sample-") THEN journal
  ELSE withTranslation(journal, targetLang,
         synthesize(IF targetLang \in DOMAIN journal.translations
                    THEN journal.translations[targetLang] ELSE journal,
                    currentLang, targetLang))

(* the journal object as translateJournal returns it *)
translateJournal(journal, targetLang, currentLang) ==
  IF currentLang = targetLang \/ startsWith(journal.id, "sample-") THEN journal
  ELSE IF targetLang \in DOMAIN journal.translations THEN journal
  ELSE withTranslation(journal, targetLang,
                       synthesize(journal, currentLang, targetLang))

Translatable(id, uid, d) ==
  [id |-> id, userId |-> uid, title |-> d.title, content |-> d.content,
   tags |-> d.tags, createdAt |-> 0, translations |-> <<>>]

TranslateInit ==
  /\ currentUser = "u1"
  /\ userJournals = << Translatable(DocId(0), "u1", NewText),
                       Translatable(LocalId(1), "u1", EditedText) >>
  /\ allJournals = <<>>
  /\ localJournals = << Translatable(LocalId(1), "u1", EditedText) >>
  /\ remote = << Translatable(DocId(0), "u1", NewText) >>
  /\ pending = {}
  /\ late = {}
  /\ formId = NoId
  /\ btnDisabled = FALSE
  /\ display = <<>>
  /\ message = NoMessage
  /\ ops = [auth |-> 1, submit |-> 0, delete |-> 0]
  /\ deletedSubs = {}
  /\ lsCorrupt = FALSE
  /\ fields = EmptyForm
  /\ draft = NoDraft
  /\ debounceArmed = FALSE
  /\ currentLanguage = "en"
  /\ authListener = "registered"
  /\ missedAuth = "none"
  /\ recovery = "none"
  /\ authState = AuthLoaded
  /\ tracker = TrackerLoaded

(* translateJournal(userJournals[i], targetLang) up to its await; currentLang
   is window.accessibilityState.currentLanguage at the time of the call *)
translateJournalCall(i, targetLang, currentLang) ==
  LET journal == userJournals[i]
      result == translateJournal(journal, targetLang, currentLang)
  IN
  /\ Cardinality(pending) < MaxPending
  /\ userJournals' = [userJournals EXCEPT ![i] = result]
  /\ pending' =
       IF result # journal /\ ~startsWith(journal.id, "local-")
       THEN pending \cup {Call("saveTranslation", currentUser, journal.id,
                                result.translations, 0)}
       ELSE pending
  /\ UNCHANGED <<currentUser, allJournals, localJournals, remote, late, formId,
                 btnDisabled, display, message, ops, deletedSubs>>

(* after `await updateDoc(..., { translations })` settles; on failure the
   translation goes to the item 'journalTranslations', which nothing reads *)
translationSaveSettled(p, ok) ==
  /\ p \in pending
  /\ p.op = "saveTranslation"
  /\ pending' = pending \ {p}
  /\ remote' =
       IF ok /\ findIndex(remote, p.id) > 0
       THEN [remote EXCEPT ![findIndex(remote, p.id)].translations = p.data]
       ELSE remote
  /\ UNCHANGED <<currentUser, userJournals, allJournals, localJournals, late,
                 formId, btnDisabled, display, message, ops, deletedSubs>>

TranslateNext ==
  \/ \E i \in DOMAIN userJournals, t \in Langs, c \in Langs :
       translateJournalCall(i, t, c) /\ UNCHANGED auxVars
  \/ \E p \in pending, ok \in BOOLEAN :
       translationSaveSettled(p, ok) /\ UNCHANGED auxVars

TranslateSpec == TranslateInit /\ [][TranslateNext]_vars

----------------------------------------------------------------------------
(* Search and filter: filterJournals, run on the lists the page holds. *)
UpperCase == <<"A", "B", "C", "D", "E", "F", "G", "H", "I", "J", "K", "L", "M",
               "N", "O", "P", "Q", "R", "S", "T", "U", "V", "W", "X", "Y", "Z">>

LowerCase == <<"a", "b", "c", "d", "e", "f", "g", "h", "i", "j", "k", "l", "m",
               "n", "o", "p", "q", "r", "s", "t", "u", "v", "w", "x", "y", "z">>

(* String.prototype.toLowerCase *)
toLowerCase(s) ==
  [i \in DOMAIN s |->
     IF \E k \in DOMAIN UpperCase : UpperCase[k] = s[i]
     THEN LowerCase[CHOOSE k \in DOMAIN UpperCase : UpperCase[k] = s[i]]
     ELSE s[i]]

(* String.prototype.includes *)
includes(s, t) ==
  \E i \in 1..(Len(s) - Len(t) + 1) : SubSeq(s, i, i + Len(t) - 1) = t

(* the filter callback of filterJournals *)
matchesSearch(journal, searchTerm) ==
  \/ journal.title # <<>> /\ includes(toLowerCase(journal.title), searchTerm)
  \/ journal.content # <<>> /\ includes(toLowerCase(journal.content), searchTerm)
  \/ \E k \in DOMAIN journal.tags :
       includes(toLowerCase(journal.tags[k]), searchTerm)

(* the list filterJournals hands to displayFilteredCombinedJournals or
   displayJournals; value is what the search input holds *)
filterJournals(value, filterType) ==
  LET searchTerm == toLowerCase(value)
      searchPool == IF currentUser # NoUser
                    THEN allJournals \o SAMPLE_JOURNALS ELSE allJournals
      nonEmpty == IF Len(searchPool) = 0 THEN SAMPLE_JOURNALS ELSE searchPool
      filtered == IF searchTerm # <<>>
                  THEN SelectSeq(nonEmpty, LAMBDA j : matchesSearch(j, searchTerm))
                  ELSE nonEmpty
  IN IF filterType = "oldest" THEN Reverse(filtered) ELSE filtered

FilterTypes == {"recent", "oldest"}

SearchChars == {"a", "A", "b", "m"}

SearchValues ==
  UNION {[1..n -> SearchChars] : n \in 0..MaxLen}

FilterTitles == { <<"A", "b">>, <<"a">>, <<"B">> }

Titled(t) == [title |-> t, content |-> <<"x">>, tags |-> << <<"m">> >>]

(* the lists of a page after some loads and saves: up to two remote journals,
   newest first, and at most one journal in the Fallback Store *)
FilterInit ==
  /\ currentUser \in {NoUser, "u1"}
  /\ allJournals \in
       {<<>>}
       \cup {<<Journal(DocId(0), "u1", Titled(t), 0)>> : t \in FilterTitles}
       \cup {<<Journal(DocId(1), "u2", Titled(t2), 1),
               Journal(DocId(0), "u1", Titled(t1), 0)>> :
               t1 \in FilterTitles, t2 \in FilterTitles}
  /\ localJournals \in {<<>>, <<Journal(LocalId(2), "u1", Titled(<<"a", "b">>), 2)>>}
  /\ remote = Reverse(allJournals)
  /\ userJournals = SelectSeq(allJournals, LAMBDA j : j.userId = currentUser)
  /\ display = IF currentUser = NoUser THEN SAMPLE_JOURNALS
               ELSE combinedJournals(allJournals, localJournals)
  /\ pending = {}
  /\ late = {}
  /\ formId = NoId
  /\ btnDisabled = FALSE
  /\ message = NoMessage
  /\ ops = [auth |-> 1, submit |-> 0, delete |-> 0]
  /\ deletedSubs = {}
  /\ lsCorrupt = FALSE
  /\ fields = EmptyForm
  /\ draft = NoDraft
  /\ debounceArmed = FALSE
  /\ currentLanguage = "en"
  /\ authListener = "registered"
  /\ missedAuth = "none"
  /\ recovery = "none"
  /\ authState = AuthLoaded
  /\ tracker = TrackerLoaded

(* the 'input' listener of the search box and the 'change' listener of the
   order select *)
filterJournalsStep(value, filterType) ==
  /\ display' = filterJournals(value, filterType)
  /\ UNCHANGED <<currentUser, userJournals, allJournals, localJournals, remote,
                 pending, late, formId, btnDisabled, message, ops, deletedSubs>>

FilterNext ==
  \E value \in SearchValues, filterType \in FilterTypes :
    filterJournalsStep(value, filterType) /\ UNCHANGED auxVars

FilterSpec == FilterInit /\ [][FilterNext]_vars

----------------------------------------------------------------------------
(* The page opened on a browser whose item 'localJournals' holds text that
   JSON.parse rejects. *)
CorruptInit ==
  /\ currentUser = NoUser
  /\ userJournals = <<>>
  /\ allJournals = <<>>
  /\ localJournals = <<>>
  /\ remote \in { <<>>, <<Journal(DocId(0), "u1", NewText, 0)>> }
  /\ pending = {}
  /\ late = {}
  /\ formId = NoId
  /\ btnDisabled = FALSE
  /\ display = <<>>
  /\ message = NoMessage
  /\ ops = [auth |-> 0, submit |-> 0, delete |-> 0]
  /\ deletedSubs = {}
  /\ lsCorrupt = TRUE
  /\ fields = EmptyForm
  /\ draft = NoDraft
  /\ debounceArmed = FALSE
  /\ currentLanguage = "en"
  /\ authListener = "registered"
  /\ missedAuth = "none"
  /\ recovery = "none"
  /\ authState = AuthLoaded
  /\ tracker = TrackerLoaded

CorruptSpec == CorruptInit /\ [][Next]_vars

----------------------------------------------------------------------------
(* The draft module of js/draft.js on the journal form: u1 is signed in and
   writes new journals.  draft is <<>> while localStorage has no item
   'journal_drafts', and <<draftData>> otherwise. *)
DraftInit ==
  /\ currentUser = "u1"
  /\ userJournals = <<>>
  /\ allJournals = <<>>
  /\ localJournals = <<>>
  /\ remote = <<>>
  /\ pending = {}
  /\ late = {}
  /\ formId = NoId
  /\ btnDisabled = FALSE
  /\ display = combinedJournals(<<>>, <<>>)
  /\ message = NoMessage
  /\ ops = [auth |-> 1, submit |-> 0, delete |-> 0]
  /\ deletedSubs = {}
  /\ lsCorrupt = FALSE
  /\ fields = EmptyForm
  /\ draft = NoDraft
  /\ debounceArmed = FALSE
  /\ currentLanguage = "en"
  /\ authListener = "registered"
  /\ missedAuth = "none"
  /\ recovery = "none"
  /\ authState = AuthLoaded
  /\ tracker = TrackerLoaded

(* saveDraft: the item 'journal_drafts' after the call *)
saveDraft ==
  IF fields.title = <<>> /\ fields.content = <<>> THEN draft
  ELSE << [title |-> fields.title, content |-> fields.content,
           tags |-> fields.tags, journalId |-> formId, savedAt |-> now] >>

(* clearDraft: localStorage.removeItem *)
clearDraft == NoDraft

(* the user types into the form: the 'input' listener restarts the 1 s
   debounce timer *)
typeInput(raw) ==
  /\ fields' = raw
  /\ debounceArmed' = TRUE
  /\ recovery' = IF recovery = "declined" THEN "edited" ELSE recovery
  /\ UNCHANGED <<currentUser, userJournals, allJournals, localJournals, remote,
                 pending, late, formId, btnDisabled, display, message, ops,
                 deletedSubs, lsCorrupt, draft, currentLanguage,
                 authListener, missedAuth, authState, tracker>>

(* the debounce timer runs out *)
debounceFires ==
  /\ debounceArmed
  /\ debounceArmed' = FALSE
  /\ draft' = saveDraft
  /\ UNCHANGED <<currentUser, userJournals, allJournals, localJournals, remote,
                 pending, late, formId, btnDisabled, display, message, ops,
                 deletedSubs, lsCorrupt, fields, currentLanguage,
                 authListener, missedAuth, recovery, authState, tracker>>

(* a tick of setInterval(saveDraft, AUTO_SAVE_INTERVAL) *)
autoSaveTick ==
  /\ draft' = saveDraft
  /\ UNCHANGED <<currentUser, userJournals, allJournals, localJournals, remote,
                 pending, late, formId, btnDisabled, display, message, ops,
                 deletedSubs, lsCorrupt, fields, debounceArmed,
                 currentLanguage, authListener, missedAuth, recovery, authState, tracker>>

(* the form's 'submit' event: handleJournalSubmit runs up to its first await
   (to its end, `finally` included, when nothing is awaited), then clearDraft *)
submitEvent ==
  /\ handleJournalSubmit(fields)
  /\ fields' = IF /\ currentUser # NoUser
                  /\ readForm(fields).title # <<>>
                  /\ readForm(fields).content # <<>>
                  /\ formId # NoId /\ startsWith(formId, "local-")
               THEN EmptyForm ELSE fields
  /\ draft' = clearDraft
  /\ UNCHANGED <<lsCorrupt, debounceArmed, currentLanguage,
                 authListener, missedAuth, recovery, authState, tracker>>

(* the rest of handleJournalSubmit once the create settled; its `finally`
   resets the form *)
createSettledForm(p, outcome) ==
  /\ createSettled(p, outcome)
  /\ fields' = EmptyForm
  /\ UNCHANGED <<lsCorrupt, draft, debounceArmed, currentLanguage,
                 authListener, missedAuth, recovery, authState, tracker>>

(* the 'Create' button: createNewJournal empties the fields *)
createNewJournalForm ==
  /\ createNewJournal
  /\ fields' = EmptyForm
  /\ UNCHANGED <<lsCorrupt, draft, debounceArmed, currentLanguage,
                 authListener, missedAuth, recovery, authState, tracker>>

DraftNext ==
  \/ \E raw \in FormInputs(formId) : typeInput(raw)
  \/ debounceFires
  \/ autoSaveTick
  \/ submitEvent
  \/ \E p \in pending, o \in Outcomes : createSettledForm(p, o)
  \/ createNewJournalForm
  \/ \E p \in pending, ok \in BOOLEAN :
       loadUserJournalsSettled(p, ok) /\ UNCHANGED auxVars

DraftSpec == DraftInit /\ [][DraftNext]_vars

----------------------------------------------------------------------------
(* The page opened on a browser whose Fallback Store holds journals of an
   earlier session: one of u1 and one of u2, with ids older than this
   session's clock. *)
StoredJournals ==
  << Journal(LocalId(-1), "u1", NewText, 0),
     Journal(LocalId(-2), "u2", EditedText, 0) >>

StoredInit ==
  /\ currentUser = NoUser
  /\ userJournals = <<>>
  /\ allJournals = <<>>
  /\ localJournals = StoredJournals
  /\ remote \in { <<>>, <<Journal(DocId(0), "u1", NewText, 0)>> }
  /\ pending = {}
  /\ late = {}
  /\ formId = NoId
  /\ btnDisabled = FALSE
  /\ display = <<>>
  /\ message = NoMessage
  /\ ops = [auth |-> 0, submit |-> 0, delete |-> 0]
  /\ deletedSubs = {}
  /\ lsCorrupt = FALSE
  /\ fields = EmptyForm
  /\ draft = NoDraft
  /\ debounceArmed = FALSE
  /\ currentLanguage = "en"
  /\ authListener = "registered"
  /\ missedAuth = "none"
  /\ recovery = "none"
  /\ authState = AuthLoaded
  /\ tracker = TrackerLoaded

StoredSpec == StoredInit /\ [][Next]_vars

----------------------------------------------------------------------------
(* The tags field: u1 types a title, a content and some text into the tags
   input of the new-journal form, and submits it. *)
TagChars == {"x", ",", " "}

TagInputs == UNION {[1..n -> TagChars] : n \in 0..MaxLen}

TagForms ==
  {[title |-> <<"T">>, content |-> <<"C">>, tags |-> t] : t \in TagInputs}

TagsInit ==
  /\ currentUser = "u1"
  /\ userJournals = <<>>
  /\ allJournals = <<>>
  /\ localJournals = <<>>
  /\ remote = <<>>
  /\ pending = {}
  /\ late = {}
  /\ formId = NoId
  /\ btnDisabled = FALSE
  /\ display = combinedJournals(<<>>, <<>>)
  /\ message = NoMessage
  /\ ops = [auth |-> 1, submit |-> 0, delete |-> 0]
  /\ deletedSubs = {}
  /\ lsCorrupt = FALSE
  /\ fields = EmptyForm
  /\ draft = NoDraft
  /\ debounceArmed = FALSE
  /\ currentLanguage = "en"
  /\ authListener = "registered"
  /\ missedAuth = "none"
  /\ recovery = "none"
  /\ authState = AuthLoaded
  /\ tracker = TrackerLoaded

TagsNext ==
  \/ \E raw \in TagForms : typeInput(raw)
  \/ submitEvent
  \/ \E p \in pending, o \in Outcomes : createSettledForm(p, o)
  \/ \E p \in pending, ok \in BOOLEAN :
       loadUserJournalsSettled(p, ok) /\ UNCHANGED auxVars

TagsSpec == TagsInit /\ [][TagsNext]_vars

----------------------------------------------------------------------------
(* The display language: translatePage of js/accessibility.js and the
   'languageChanged' listener of initJournal. *)

(* journal.translations, which a journal read from the stores may lack *)
translationsOf(journal) ==
  IF "translations" \in DOMAIN journal THEN journal.translations ELSE <<>>

(* `if (!journal.translations) journal.translations = {}` *)
withTranslations(journal) ==
  IF "translations" \in DOMAIN journal THEN journal
  ELSE journal @@ [translations |-> <<>>]

(* title, content and tags a card shows for the journal in language lang *)
getTranslatedJournalData(journal, lang) ==
  IF lang \in DOMAIN translationsOf(journal)
  THEN LET translation == translationsOf(journal)[lang] IN
       [title |-> IF translation.title # <<>> THEN translation.title
                  ELSE journal.title,
        content |-> IF translation.content # <<>> THEN translation.content
                    ELSE journal.content,
        tags |-> translation.tags]
  ELSE [title |-> journal.title, content |-> journal.content,
        tags |-> journal.tags]

(* the list after the loop of translateAllJournals over it *)
translateAllJournals(list, targetLang, currentLang) ==
  IF currentLang = targetLang THEN list
  ELSE [i \in DOMAIN list |->
          IF startsWith(list[i].id, "sample-") THEN list[i]
          ELSE translateJournal(withTranslations(list[i]), targetLang, currentLang)]

(* translatePage(lang): sets accessibilityState.currentLanguage and dispatches
   'languageChanged'; the listener reads the target language and
   translateAllJournals reads the current language from that same field *)
languageChanged(lang) ==
  LET targetLang == currentLanguage'
      currentLang == currentLanguage'
  IN
  /\ currentLanguage' = lang
  /\ userJournals' = translateAllJournals(userJournals, targetLang, currentLang)
  /\ allJournals' = translateAllJournals(allJournals, targetLang, currentLang)
  /\ pending' = pending \cup
       {Call("saveTranslation", currentUser, userJournals[i].id,
             translationsOf(userJournals'[i]), 0) :
          i \in {k \in DOMAIN userJournals :
                   /\ userJournals'[k] # userJournals[k]
                   /\ ~startsWith(userJournals[k].id, "local-")}}
  /\ display' = IF currentUser # NoUser
                THEN combinedJournals(allJournals', localJournals)
                ELSE IF Len(allJournals') > 0 THEN allJournals'
                ELSE SAMPLE_JOURNALS
  /\ message' = showMessage("Language changed", "success")
  /\ UNCHANGED <<currentUser, localJournals, remote, late, formId, btnDisabled,
                 ops, deletedSubs, lsCorrupt, fields, draft, debounceArmed,
                 authListener, missedAuth, recovery, authState, tracker>>

LangNext ==
  \/ Next
  \/ \E lang \in Langs : languageChanged(lang)

LangSpec == Init /\ [][LangNext]_vars

----------------------------------------------------------------------------
(* The page opened while the remote store holds a document that carries a
   cached translation, as translateJournal saves it with updateDoc. *)
TranslatedDoc ==
  LET journal == Journal(DocId(0), "u1", NewText, 0) IN
  journal @@ [translations |-> [l \in {"es"} |-> synthesize(journal, "en", l)]]

StaleInit ==
  /\ currentUser = NoUser
  /\ userJournals = <<>>
  /\ allJournals = <<>>
  /\ localJournals = <<>>
  /\ remote = << TranslatedDoc >>
  /\ pending = {}
  /\ late = {}
  /\ formId = NoId
  /\ btnDisabled = FALSE
  /\ display = <<>>
  /\ message = NoMessage
  /\ ops = [auth |-> 0, submit |-> 0, delete |-> 0]
  /\ deletedSubs = {}
  /\ lsCorrupt = FALSE
  /\ fields = EmptyForm
  /\ draft = NoDraft
  /\ debounceArmed = FALSE
  /\ currentLanguage = "en"
  /\ authListener = "registered"
  /\ missedAuth = "none"
  /\ recovery = "none"
  /\ authState = AuthLoaded
  /\ tracker = TrackerLoaded

StaleSpec == StaleInit /\ [][LangNext]_vars

----------------------------------------------------------------------------
(* Page start: initAuth has subscribed to the auth provider, initJournal has
   called setupAuthListener, whose import of js/auth.js has not settled yet,
   and the provider has not reported the auth state yet. *)
BootInit ==
  /\ currentUser = NoUser
  /\ userJournals = <<>>
  /\ allJournals = <<>>
  /\ localJournals = <<>>
  /\ remote \in { <<>>, <<Journal(DocId(0), "u1", NewText, 0)>> }
  /\ pending = {}
  /\ late = {}
  /\ formId = NoId
  /\ btnDisabled = FALSE
  /\ display = <<>>
  /\ message = NoMessage
  /\ ops = [auth |-> 0, submit |-> 0, delete |-> 0]
  /\ deletedSubs = {}
  /\ lsCorrupt = FALSE
  /\ fields = EmptyForm
  /\ draft = NoDraft
  /\ debounceArmed = FALSE
  /\ currentLanguage = "en"
  /\ authListener = "importing"
  /\ missedAuth = "none"
  /\ recovery = "none"
  /\ authState = AuthLoaded
  /\ tracker = TrackerLoaded

(* the callback of setupAuthListener, called with the auth state *)
authCallback(user) ==
  /\ ops' = [ops EXCEPT !.auth = @ + 1]
  /\ currentUser' = user
  /\ IF user # NoUser
     THEN /\ pending' = pending \cup {Call("loadUser", user, NoId, NoData, 0),
                                      Call("loadAll", NoUser, NoId, NoData, 0)}
          /\ display' = display
     ELSE /\ pending' = pending
          /\ display' = SAMPLE_JOURNALS
  /\ UNCHANGED <<userJournals, allJournals, localJournals, remote, late,
                 formId, btnDisabled, deletedSubs>>
  /\ message' = NoMessage

(* the provider reports the auth state for the first time: initAuthState's
   onAuthStateChanged callback notifies the listeners registered by then *)
onAuthStateChanged(user) ==
  /\ missedAuth = "none"
  /\ ops.auth = 0
  /\ IF authListener = "registered"
     THEN /\ authCallback(user)
          /\ UNCHANGED missedAuth
     ELSE /\ missedAuth' = user
          /\ UNCHANGED <<currentUser, userJournals, allJournals, localJournals,
                         remote, pending, late, formId, btnDisabled, display,
                         message, ops, deletedSubs>>
  /\ UNCHANGED <<lsCorrupt, fields, draft, debounceArmed, currentLanguage,
                 authListener, recovery, authState, tracker>>

(* import('./auth.js') settles.  Resolved: addAuthStateListener pushes the
   callback and calls it (setTimeout 0) only when auth.js holds a signed-in
   user.  Rejected: the samples are shown. *)
importSettled(ok) ==
  /\ authListener = "importing"
  /\ authListener' = IF ok THEN "registered" ELSE "failed"
  /\ IF ok /\ missedAuth \in Users
     THEN authCallback(missedAuth)
     ELSE /\ display' = IF ok THEN display ELSE SAMPLE_JOURNALS
          /\ UNCHANGED <<currentUser, userJournals, allJournals, localJournals,
                         remote, pending, late, formId, btnDisabled, message,
                         ops, deletedSubs>>
  /\ UNCHANGED <<lsCorrupt, fields, draft, debounceArmed, currentLanguage,
                 missedAuth, recovery, authState, tracker>>

BootNext ==
  \/ \E u \in Users \cup {NoUser} : onAuthStateChanged(u)
  \/ \E ok \in BOOLEAN : importSettled(ok)
  \/ authListener = "registered" /\ Next

(* the import settles, the provider reports, and the loads get an answer *)
BootSpec ==
  /\ BootInit
  /\ [][BootNext]_vars
  /\ WF_vars(\E u \in Users \cup {NoUser} : onAuthStateChanged(u))
  /\ WF_vars(\E ok \in BOOLEAN : importSettled(ok))
  /\ WF_vars(\E p \in pending, ok \in BOOLEAN :
               loadUserJournalsSettled(p, ok) /\ UNCHANGED auxVars)
  /\ WF_vars(\E p \in pending, ok \in BOOLEAN :
               loadAllJournalsSettled(p, ok) /\ UNCHANGED auxVars)

(* the first report of the provider said that nobody is signed in, and
   nobody has signed in since *)
guestAtBoot ==
  /\ currentUser = NoUser
  /\ \/ missedAuth = NoUser /\ ops.auth = 0
     \/ missedAuth = "none" /\ ops.auth = 1

----------------------------------------------------------------------------
(* Page load with an item 'journal_drafts' left by an earlier visit:
   initDraft calls recoverDraft and starts the auto-save timer. *)
MAX_DRAFT_AGE == 7 * 24 * 60 * 60 * 1000

(* how old the stored draft is when the page loads *)
DraftAges == {0, MAX_DRAFT_AGE, MAX_DRAFT_AGE + 1}

(* what saveDraft can have stored: never an empty title with an empty content *)
StoredDrafts ==
  { d \in [title : {<<>>, <<"T", "1">>}, content : {<<>>, <<"C", "1">>},
           tags : {<<>>, <<"x">>}, journalId : {NoId, DocId(0)},
           savedAt : {1 - a : a \in DraftAges}] :
      d.title # <<>> \/ d.content # <<>> }

RecoverInit ==
  /\ currentUser = "u1"
  /\ userJournals = <<>>
  /\ allJournals = <<>>
  /\ localJournals = <<>>
  /\ remote = <<>>
  /\ pending = {}
  /\ late = {}
  /\ formId = NoId
  /\ btnDisabled = FALSE
  /\ display = combinedJournals(<<>>, <<>>)
  /\ message = NoMessage
  /\ ops = [auth |-> 1, submit |-> 0, delete |-> 0]
  /\ deletedSubs = {}
  /\ lsCorrupt = FALSE
  /\ fields = EmptyForm
  /\ draft \in {NoDraft} \cup {<<d>> : d \in StoredDrafts}
  /\ debounceArmed = FALSE
  /\ currentLanguage = "en"
  /\ authListener = "registered"
  /\ missedAuth = "none"
  /\ recovery = "loading"
  /\ authState = AuthLoaded
  /\ tracker = TrackerLoaded

(* a recoverDraft that does not look at the age of the draft *)
recoverDraft_anyAge ==
  /\ recovery = "loading"
  /\ IF draft = NoDraft
     THEN /\ recovery' = "empty"
          /\ UNCHANGED <<draft, fields, formId>>
     ELSE LET d == draft[1]
              hasContent == d.title # <<>> \/ d.content # <<>> IN
          /\ fields' = [title |-> IF d.title # <<>> THEN d.title ELSE fields.title,
                        content |-> IF d.content # <<>> THEN d.content
                                    ELSE fields.content,
                        tags |-> IF d.tags # <<>> THEN d.tags ELSE fields.tags]
          /\ formId' = IF d.journalId # NoId THEN d.journalId ELSE formId
          /\ recovery' = IF hasContent THEN "prompt" ELSE "empty"
          /\ UNCHANGED draft
  /\ UNCHANGED <<currentUser, userJournals, allJournals, localJournals, remote,
                 pending, late, btnDisabled, display, message, ops, deletedSubs,
                 lsCorrupt, debounceArmed, currentLanguage, authListener,
                 missedAuth, authState, tracker>>

(* recoverDraft, up to the setTimeout that will ask the user *)
recoverDraft ==
  /\ recovery = "loading"
  /\ IF draft = NoDraft
     THEN /\ recovery' = "empty"
          /\ UNCHANGED <<draft, fields, formId>>
     ELSE LET d == draft[1]
              age == now - d.savedAt
              hasContent == d.title # <<>> \/ d.content # <<>> IN
          IF age > MAX_DRAFT_AGE
          THEN /\ draft' = clearDraft
               /\ recovery' = "expired"
               /\ UNCHANGED <<fields, formId>>
          ELSE /\ fields' = [title |-> IF d.title # <<>> THEN d.title
                                      ELSE fields.title,
                             content |-> IF d.content # <<>> THEN d.content
                                         ELSE fields.content,
                             tags |-> IF d.tags # <<>> THEN d.tags ELSE fields.tags]
               /\ formId' = IF d.journalId # NoId THEN d.journalId ELSE formId
               /\ recovery' = IF hasContent THEN "prompt" ELSE "empty"
               /\ UNCHANGED draft
  /\ UNCHANGED <<currentUser, userJournals, allJournals, localJournals, remote,
                 pending, late, btnDisabled, display, message, ops, deletedSubs,
                 lsCorrupt, debounceArmed, currentLanguage, authListener,
                 missedAuth, authState, tracker>>

(* the setTimeout of recoverDraft, 500 ms later: the user answers confirm() *)
confirmAnswered(yes) ==
  /\ recovery = "prompt"
  /\ IF yes
     THEN /\ message' = showMessage("Draft restored!", "success")
          /\ recovery' = "restored"
          /\ UNCHANGED draft
     ELSE /\ draft' = clearDraft
          /\ recovery' = "declined"
          /\ UNCHANGED message
  /\ UNCHANGED <<currentUser, userJournals, allJournals, localJournals, remote,
                 pending, late, formId, btnDisabled, display, ops, deletedSubs,
                 lsCorrupt, fields, debounceArmed, currentLanguage, authListener,
                 missedAuth, authState, tracker>>

(* the timers and the form are at work once recoverDraft has asked *)
RecoverNext ==
  \/ recoverDraft
  \/ \E yes \in BOOLEAN : confirmAnswered(yes)
  \/ recovery \notin {"loading", "prompt"} /\ DraftNext

RecoverSpec == RecoverInit /\ [][RecoverNext]_vars

----------------------------------------------------------------------------
(* The auth state management of js/auth.js: the provider reports auth-state
   changes to the callback of initAuthState, and other modules register and
   unsubscribe listeners. *)
MaxAuthChanges == 3

Listeners == {1, 2}

journalVars ==
  <<currentUser, userJournals, allJournals, localJournals, remote, pending,
    late, formId, btnDisabled, display, message, ops, deletedSubs, lsCorrupt,
    fields, draft, debounceArmed, currentLanguage, authListener, missedAuth,
    recovery, tracker>>

(* localStorage may hold the items an earlier visit left *)
AuthInit ==
  /\ currentUser = NoUser
  /\ userJournals = <<>>
  /\ allJournals = <<>>
  /\ localJournals = <<>>
  /\ remote = <<>>
  /\ pending = {}
  /\ late = {}
  /\ formId = NoId
  /\ btnDisabled = FALSE
  /\ display = <<>>
  /\ message = NoMessage
  /\ ops = [auth |-> 0, submit |-> 0, delete |-> 0]
  /\ deletedSubs = {}
  /\ lsCorrupt = FALSE
  /\ fields = EmptyForm
  /\ draft = NoDraft
  /\ debounceArmed = FALSE
  /\ currentLanguage = "en"
  /\ authListener = "registered"
  /\ missedAuth = "none"
  /\ recovery = "none"
  /\ \E u \in Users \cup {NoItem} :
       authState = [AuthLoaded EXCEPT
                      !.isLoggedIn = IF u = NoItem THEN NoItem ELSE "true",
                      !.userUid = u]
  /\ tracker = TrackerLoaded

(* an auth-state callback that leaves 'userUid' in place on a sign-out *)
authChanged_keepsUid(user) ==
  /\ authState.changes < MaxAuthChanges
  /\ authState' =
       [authState EXCEPT
          !.currentUser = user,
          !.isLoggedIn = IF user # NoUser THEN "true" ELSE NoItem,
          !.userUid = IF user # NoUser THEN user ELSE @,
          !.called = [i \in DOMAIN authState.authListeners |->
                        [listener |-> authState.authListeners[i], user |-> user]],
          !.changes = @ + 1]
  /\ UNCHANGED journalVars

(* the onAuthStateChanged callback of initAuthState *)
authChanged(user) ==
  /\ authState.changes < MaxAuthChanges
  /\ authState' =
       [authState EXCEPT
          !.currentUser = user,
          !.isLoggedIn = IF user # NoUser THEN "true" ELSE NoItem,
          !.userUid = IF user # NoUser THEN user ELSE NoItem,
          !.called = [i \in DOMAIN authState.authListeners |->
                        [listener |-> authState.authListeners[i], user |-> user]],
          !.changes = @ + 1]
  /\ UNCHANGED journalVars

(* addAuthStateListener(listener), for a function not passed before *)
addAuthStateListener(listener) ==
  /\ listener \notin authState.registered
  /\ authState' =
       [authState EXCEPT
          !.authListeners = Append(@, listener),
          !.registered = @ \cup {listener},
          !.timers = IF authState.currentUser # NoUser
                     THEN @ \cup {listener} ELSE @,
          !.called = <<>>]
  /\ UNCHANGED journalVars

(* the function addAuthStateListener(listener) returned is called *)
unsubscribe(listener) ==
  /\ listener \in authState.registered
  /\ authState' =
       [authState EXCEPT
          !.authListeners = SelectSeq(@, LAMBDA l : l # listener),
          !.unsubscribed = @ \cup {listener},
          !.called = <<>>]
  /\ UNCHANGED journalVars

(* the setTimeout(0) of addAuthStateListener runs: listener(currentUser) *)
initialCall(listener) ==
  /\ listener \in authState.timers
  /\ authState' =
       [authState EXCEPT
          !.timers = @ \ {listener},
          !.called = << [listener |-> listener, user |-> authState.currentUser] >>]
  /\ UNCHANGED journalVars

AuthNext ==
  \/ \E user \in Users \cup {NoUser} : authChanged(user)
  \/ \E listener \in Listeners : addAuthStateListener(listener)
  \/ \E listener \in Listeners : unsubscribe(listener)
  \/ \E listener \in Listeners : initialCall(listener)

AuthSpec == AuthInit /\ [][AuthNext]_vars

getCurrentUser == authState.currentUser

isUserLoggedIn == authState.isLoggedIn = "true"

----------------------------------------------------------------------------
(* The time tracker of js/tracker.js for one user, "u1". *)
MaxClock == 15

MaxSaves == 2

MaxSessions == 2

TickSeconds == 5

untrackedVars ==
  <<currentUser, userJournals, allJournals, localJournals, remote, pending,
    late, formId, btnDisabled, display, message, ops, deletedSubs, lsCorrupt,
    fields, draft, debounceArmed, currentLanguage, authListener, missedAuth,
    recovery, authState>>

TrackerInit ==
  /\ currentUser = NoUser
  /\ userJournals = <<>>
  /\ allJournals = <<>>
  /\ localJournals = <<>>
  /\ remote = <<>>
  /\ pending = {}
  /\ late = {}
  /\ formId = NoId
  /\ btnDisabled = FALSE
  /\ display = <<>>
  /\ message = NoMessage
  /\ ops = [auth |-> 0, submit |-> 0, delete |-> 0]
  /\ deletedSubs = {}
  /\ lsCorrupt = FALSE
  /\ fields = EmptyForm
  /\ draft = NoDraft
  /\ debounceArmed = FALSE
  /\ currentLanguage = "en"
  /\ authListener = "registered"
  /\ missedAuth = "none"
  /\ recovery = "none"
  /\ authState = AuthLoaded
  /\ \E fs \in BOOLEAN : tracker = [TrackerLoaded EXCEPT !.firestore = fs]

(* saveTimeStatsToLocalStorage(sessionTotalSeconds) *)
saveTimeStatsToLocalStorage(t, sessionTotalSeconds) ==
  IF t.currentUserId = NoUser THEN t
  ELSE [t EXCEPT !.statsTotal = @ + sessionTotalSeconds]

(* saveCurrentSession up to its first await; without Firestore it has none
   and runs to its end *)
saveCurrentSessionStart(t) ==
  IF t.authUser = NoUser \/ ~t.isTracking THEN t
  ELSE LET timeSinceLastSave ==
             IF t.lastSaveTime # NoTime THEN t.clock - t.lastSaveTime ELSE 0 IN
       IF timeSinceLastSave < 5 THEN t
       ELSE IF t.firestore
       THEN [t EXCEPT !.saves = @ \cup
                         {[id |-> t.nextSave, stage |-> "getDoc", now |-> t.clock,
                           duration |-> timeSinceLastSave, exists |-> FALSE,
                           newTotal |-> 0]},
                      !.nextSave = @ + 1]
       ELSE [saveTimeStatsToLocalStorage(t, t.currentSessionSeconds)
               EXCEPT !.lastSaveTime = t.clock]

(* restoreSession *)
restoreSession(t) ==
  IF t.sessionStart # NoTime
  THEN [t EXCEPT !.currentSessionSeconds = t.pendingSeconds + (t.clock - t.sessionStart),
                 !.sessionStartTime = t.sessionStart,
                 !.lastSaveTime = t.sessionStart]
  ELSE [t EXCEPT !.currentSessionSeconds = 0,
                 !.sessionStartTime = t.clock,
                 !.lastSaveTime = t.clock,
                 !.sessionStart = t.clock]

(* startTracking *)
startTracking(t) ==
  IF t.isTracking THEN t
  ELSE LET u == [t EXCEPT !.isTracking = TRUE] IN
       IF u.sessionStartTime = NoTime
       THEN [u EXCEPT !.sessionStartTime = t.clock, !.lastSaveTime = t.clock,
                      !.sessionStart = t.clock]
       ELSE u

(* savePendingSession *)
savePendingSession(t) ==
  IF t.sessionStartTime # NoTime
  THEN [t EXCEPT !.sessionStart = t.sessionStartTime,
                 !.pendingSeconds = t.currentSessionSeconds]
  ELSE t

(* stopTracking *)
stopTracking(t) ==
  IF ~t.isTracking THEN t
  ELSE savePendingSession(saveCurrentSessionStart([t EXCEPT !.isTracking = FALSE]))

(* resetDisplay *)
resetDisplay(t) ==
  [t EXCEPT !.currentSessionSeconds = 0, !.sessionStartTime = NoTime,
            !.lastSaveTime = NoTime]

(* the provider reports a sign-in or a sign-out to the callback of the
   tracker's setupAuthListener *)
trackerAuthChanged(user) ==
  /\ user # tracker.authUser
  /\ user # NoUser => tracker.sessions < MaxSessions
  /\ tracker' =
       IF user # NoUser
       THEN [startTracking(restoreSession([tracker EXCEPT !.authUser = user,
                                                          !.currentUserId = user]))
               EXCEPT !.sessions = @ + 1]
       ELSE resetDisplay(stopTracking([tracker EXCEPT !.authUser = NoUser,
                                                      !.currentUserId = NoUser]))
  /\ UNCHANGED untrackedVars

(* TickSeconds go by; while tracking, the 1 s interval runs updateTimeDisplay *)
tick ==
  /\ tracker.clock < MaxClock
  /\ tracker' =
       LET t == [tracker EXCEPT !.clock = @ + TickSeconds,
                                !.tracked = IF tracker.isTracking
                                            THEN @ + TickSeconds ELSE @] IN
       IF t.isTracking /\ t.sessionStartTime # NoTime
       THEN [t EXCEPT !.currentSessionSeconds = t.clock - t.sessionStartTime]
       ELSE t
  /\ UNCHANGED untrackedVars

(* the 30 s interval, or 'beforeunload', calls saveCurrentSession *)
saveCurrentSession ==
  /\ tracker.nextSave < MaxSaves
  /\ tracker' = saveCurrentSessionStart(tracker)
  /\ UNCHANGED untrackedVars

(* the catch block of saveCurrentSession, and its last line *)
saveFailed(t, s) ==
  [saveTimeStatsToLocalStorage(t, t.currentSessionSeconds)
     EXCEPT !.saves = @ \ {s}, !.lastSaveTime = s.now]

(* getDoc settles *)
getDocSettled(s, ok) ==
  /\ s \in tracker.saves
  /\ s.stage = "getDoc"
  /\ tracker' =
       IF ok
       THEN LET existingTotal == IF tracker.docTotal # NoDoc
                                 THEN tracker.docTotal ELSE 0 IN
            [tracker EXCEPT !.saves = (@ \ {s}) \cup
                              {[s EXCEPT !.stage = "write",
                                         !.exists = tracker.docTotal # NoDoc,
                                         !.newTotal = existingTotal + s.duration]}]
       ELSE saveFailed(tracker, s)
  /\ UNCHANGED untrackedVars

(* updateDoc or setDoc settles, and saveCurrentSession sets lastSaveTime *)
writeSettled(s, ok) ==
  /\ s \in tracker.saves
  /\ s.stage = "write"
  /\ tracker' =
       IF ok
       THEN [tracker EXCEPT !.docTotal = IF s.exists THEN s.newTotal ELSE s.duration,
                            !.saves = @ \ {s},
                            !.lastSaveTime = s.now]
       ELSE saveFailed(tracker, s)
  /\ UNCHANGED untrackedVars

TrackerNext ==
  \/ \E user \in {"u1", NoUser} : trackerAuthChanged(user)
  \/ tick
  \/ saveCurrentSession
  \/ \E s \in tracker.saves, ok \in BOOLEAN : getDocSettled(s, ok)
  \/ \E s \in tracker.saves, ok \in BOOLEAN : writeSettled(s, ok)

TrackerSpec == TrackerInit /\ [][TrackerNext]_vars

(* the persisted cumulative total: Firestore document plus localStorage stats *)
persistedTotal(t) == t.statsTotal + (IF t.docTotal # NoDoc THEN t.docTotal ELSE 0)

----------------------------------------------------------------------------
writeOps == {"create", "update", "delete"}

isPending(op) == \E p \in pending : p.op = op

onlySpaces(s) == \A i \in DOMAIN s : s[i] = " "

(* C11: every remote write that handleJournalSubmit or deleteJournal has
   issued eventually settles, whether or not the remote store answers *)
C11_EveryWriteSettles ==
  \A op \in writeOps : isPending(op) ~> ~isPending(op)

(* C12: a submit whose title or content is empty once trimmed issues no remote
   call and leaves the remote store, the Fallback Store, userJournals and
   allJournals as they were *)
C12_InvalidSubmitTouchesNothing ==
  [][\A raw \in FormInputs(formId) :
       (handleJournalSubmit(raw) /\ (onlySpaces(raw.title) \/ onlySpaces(raw.content)))
         => UNCHANGED <<pending, late, remote, localJournals, userJournals,
                        allJournals>>]_vars

C12_Witness ==
  /\ message = showMessage("Please fill in both title and content", "error")
  /\ currentUser # NoUser
  /\ userJournals # <<>>

(* the entry a list holds under an id, as a list of at most one entry *)
recordOf(seq, id) ==
  IF findIndex(seq, id) > 0 THEN <<seq[findIndex(seq, id)]>> ELSE <<>>

(* C13: an update that submits the text the Fallback Store already holds for
   the journal (the same update made a second time) leaves the journal's
   record in the Fallback Store and in userJournals as it was, createdAt
   included; updatedAt is not modelled *)
C13_UpdateIdempotent ==
  [][/\ \A p \in pending, o \in Outcomes :
          (updateSettled(p, o) /\ holdsTextAt(localJournals, p.id, p.data)) =>
            /\ recordOf(localJournals', p.id) = recordOf(localJournals, p.id)
            /\ recordOf(userJournals', p.id) = recordOf(userJournals, p.id)
     /\ \A raw \in FormInputs(formId) :
          (handleJournalSubmit(raw) /\ holdsTextAt(localJournals, formId, readForm(raw))) =>
            /\ recordOf(localJournals', formId) = recordOf(localJournals, formId)
            /\ recordOf(userJournals', formId) = recordOf(userJournals, formId)]_vars

textOf(j) == [title |-> j.title, content |-> j.content, tags |-> j.tags]

(* C14: a journal written with saveJournalToLocalStorage is held by the
   Fallback Store with the title, content and tags it was written with, and
   the fallback read of loadUserJournals returns every stored journal of the
   signed-in user with the title, content and tags (in order) it is stored
   with *)
C14_FallbackRoundTrip ==
  [][/\ \A j \in RoundTripJournals(currentUser) :
          fallbackWrite(j) => holdsTextAt(localJournals', j.id, textOf(j))
     /\ \A p \in pending :
          loadUserJournalsSettled(p, FALSE) =>
            \A i \in DOMAIN localJournals :
              localJournals[i].userId = currentUser =>
                holdsTextAt(userJournals', localJournals[i].id,
                            textOf(localJournals[i]))]_vars

C14_Witness ==
  /\ pending = {}
  /\ \E i \in DOMAIN userJournals :
       /\ userJournals[i].userId = currentUser
       /\ userJournals[i].title = <<"\"", "\\">>

(* C15: a call of translateJournal for a language the journal already has a
   translation for returns the journal as it is and saves nothing; and every
   cached translation is the journal's text with the language marker in
   front once *)
C15_TranslationCached ==
  [][\A i \in DOMAIN userJournals, t \in Langs, c \in Langs :
       translateJournalCall(i, t, c) =>
         /\ t \in DOMAIN userJournals[i].translations =>
              userJournals' = userJournals /\ pending' = pending
         /\ \A l \in DOMAIN userJournals'[i].translations :
              userJournals'[i].translations[l].title =
                marker(l) \o userJournals'[i].title]_vars

C15_Witness ==
  /\ pending = {}
  /\ DOMAIN userJournals[1].translations = {"es", "fr"}
  /\ DOMAIN remote[1].translations = {"es", "fr"}
  /\ DOMAIN userJournals[2].translations = {"es"}

(* C16: when loadAllJournals settles for a viewer who is not signed in, and the
   query failed or returned no document, the displayed list is exactly
   SAMPLE_JOURNALS in its built-in order *)
C16_GuestSeesSamples ==
  [][\A p \in pending, ok \in BOOLEAN :
       (/\ loadAllJournalsSettled(p, ok)
        /\ currentUser = NoUser
        /\ ~ok \/ remote = <<>>) => display' = SAMPLE_JOURNALS]_vars

C16_Witness ==
  /\ currentUser = NoUser
  /\ ops.auth = 2
  /\ \A p \in pending : p.op # "loadAll"
  /\ allJournals = <<>>
  /\ display = SAMPLE_JOURNALS

(* C17: once the viewer has signed out, userJournals is empty and the
   displayed list is SAMPLE_JOURNALS alone, also after a load that was started
   before the sign-out has settled *)
C17_SignOutClears ==
  (currentUser = NoUser /\ ops.auth > 0) =>
    /\ userJournals = <<>>
    /\ display = SAMPLE_JOURNALS

(* C18: the list shown after a search is the merged collection (remote
   journals, Fallback Store, samples) cut down to the journals whose title,
   content or some tag contains the search term, letter case ignored, and
   reversed when the order is 'oldest'; with an empty term it is the merged
   collection itself or its reverse *)
C18_SearchOverMerged ==
  [][\A value \in SearchValues, filterType \in FilterTypes :
       filterJournalsStep(value, filterType) =>
         LET merged == combinedJournals(allJournals, localJournals)
             hits == SelectSeq(merged, LAMBDA j :
                       \/ includes(toLowerCase(j.title), toLowerCase(value))
                       \/ includes(toLowerCase(j.content), toLowerCase(value))
                       \/ \E k \in DOMAIN j.tags :
                            includes(toLowerCase(j.tags[k]), toLowerCase(value)))
         IN display' = IF filterType = "oldest" THEN Reverse(hits) ELSE hits]_vars

(* C19: while the text under 'localJournals' does not parse, a create that
   falls back to the Fallback Store leaves the journal stored there, a failed
   loadUserJournals reads no fallback journal and shows no error, and the
   removal of a 'local-' journal shows no error *)
C19_CorruptStoreIsEmptyStore ==
  [][lsCorrupt =>
       /\ \A p \in pending, o \in Failures :
            (createSettled(p, o) /\ ~submitThrows) =>
              holdsTextAt(localJournals', LocalId(p.sub), p.data)
       /\ \A p \in pending :
            loadUserJournalsSettled(p, FALSE) =>
              userJournals' = <<>> /\ message'.type # "error"
       /\ \A id \in DeletableIds :
            (deleteJournal(id) /\ startsWith(id, "local-")) =>
              message'.type # "error"]_vars

(* C20: when a submitted journal has been saved, no draft is left in storage;
   and while the save of a submitted journal is pending, neither the
   auto-save timer nor the debounced input handler stores a draft of that
   journal's text *)
C20_NoDraftOfSubmitted ==
  [][/\ \A p \in pending, o \in Outcomes :
          (createSettled(p, o) /\ message'.type = "success") => draft' = NoDraft
     /\ \A p \in pending :
          (p.op = "create" /\ (autoSaveTick \/ debounceFires)) =>
            \/ draft' = NoDraft
            \/ ~sameText(readForm(draft'[1]), p.data)]_vars

(* C21: when deleteJournal has shown its success message for an id, the id is
   in none of userJournals, allJournals, the Fallback Store and the list
   displayed at the end of the call *)
C21_DeletedIsGone ==
  [][/\ \A id \in DeletableIds :
          (deleteJournal(id) /\ message'.type = "success") =>
            id \notin Ids(userJournals') \cup Ids(allJournals')
                        \cup Ids(localJournals') \cup Ids(display')
     /\ \A p \in pending :
          deleteSettled(p, TRUE) =>
            p.id \notin Ids(userJournals') \cup Ids(allJournals')
                          \cup Ids(localJournals') \cup Ids(display')]_vars

(* C22: an update submitted for an id with the 'local-' prefix writes the
   journal to the Fallback Store in the same step, leaves the remote store
   alone and starts no remote update; no remote update of a 'local-' id is
   ever in flight *)
C22_LocalUpdateStaysLocal ==
  [][/\ \A raw \in FormInputs(formId) :
          (/\ handleJournalSubmit(raw)
           /\ formId # NoId /\ startsWith(formId, "local-")
           /\ ops'.submit # ops.submit) =>
             /\ remote' = remote
             /\ \A q \in pending' \ pending : q.op = "loadUser"
             /\ holdsTextAt(localJournals', formId, readForm(raw))
     /\ \A q \in pending' \cup late' :
          q.op = "update" => ~startsWith(q.id, "local-")]_vars

C22_Witness ==
  /\ message.text = "Journal updated locally!"
  /\ \E i \in DOMAIN localJournals :
       /\ startsWith(localJournals[i].id, "local-")
       /\ sameText(localJournals[i], EditedText)

(* C23: deleteJournal on an id with the 'local-' prefix takes the records with
   that id, and no other, out of the Fallback Store and out of userJournals,
   and sends nothing to the remote store; on any other id it sends a remote
   delete *)
C23_LocalDeleteFrame ==
  [][\A id \in DeletableIds :
       deleteJournal(id) =>
         IF startsWith(id, "local-")
         THEN /\ localJournals' = SelectSeq(localJournals, LAMBDA j : j.id # id)
              /\ userJournals' = SelectSeq(userJournals, LAMBDA j : j.id # id)
              /\ pending' = pending
              /\ remote' = remote
         ELSE \E q \in pending' : q.op = "delete" /\ q.id = id]_vars

C23_Witness ==
  /\ message.text = "Journal deleted successfully"
  /\ deletedSubs = {-1}
  /\ localJournals = << StoredJournals[2] >>

(* C24: when the result of a loadUserJournals query arrives, every journal of
   the signed-in user that userJournals holds under a 'local-' id and that the
   Fallback Store still has, is still in userJournals *)
C24_LoadKeepsLocalWrites ==
  [][\A p \in pending, ok \in BOOLEAN :
       loadUserJournalsSettled(p, ok) =>
         \A i \in DOMAIN userJournals :
           (/\ startsWith(userJournals[i].id, "local-")
            /\ userJournals[i].userId = currentUser
            /\ userJournals[i].id \in Ids(localJournals)) =>
              userJournals[i].id \in Ids(userJournals')]_vars

(* C25: when the query of loadUserJournals fails while a user is signed in,
   userJournals becomes the records of the Fallback Store whose userId is that
   user's uid: each of them once, and no other record *)
C25_FallbackReadIsOwnerFiltered ==
  [][\A p \in pending :
       (loadUserJournalsSettled(p, FALSE) /\ currentUser # NoUser) =>
         /\ {userJournals'[i] : i \in DOMAIN userJournals'} =
              {localJournals[i] : i \in {k \in DOMAIN localJournals :
                                          localJournals[k].userId = currentUser}}
         /\ Len(userJournals') =
              Cardinality({k \in DOMAIN localJournals :
                             localJournals[k].userId = currentUser})]_vars

C25_Witness ==
  /\ currentUser = "u1"
  /\ localJournals = StoredJournals
  /\ userJournals = << StoredJournals[1] >>
  /\ \A p \in pending : p.op # "loadUser"

(* C26: editJournal called with a 'sample-' id shows an error and leaves the
   form as it is; the form never carries a 'sample-' id; no record and no
   remote call has a 'sample-' id; every displayed journal with a 'sample-'
   id is the built-in one; and translateJournal returns a sample as it is *)
C26_SamplesImmutable ==
  [][/\ \A id \in Ids(SAMPLE_JOURNALS) :
          editJournal(id) => formId' = formId /\ message'.type = "error"
     /\ ~startsWith(formId', "sample-")
     /\ \A id \in Ids(remote') \cup Ids(localJournals') \cup Ids(userJournals')
                  \cup Ids(allJournals') \cup {q.id : q \in pending' \cup late'} :
          ~startsWith(id, "sample-")
     /\ \A i \in DOMAIN display' :
          startsWith(display'[i].id, "sample-") =>
            \E k \in DOMAIN SAMPLE_JOURNALS : display'[i] = SAMPLE_JOURNALS[k]
     /\ \A k \in DOMAIN SAMPLE_JOURNALS, t \in Langs, c \in Langs :
          translateJournal(SAMPLE_JOURNALS[k], t, c) = SAMPLE_JOURNALS[k]]_vars

C26_Witness ==
  /\ message.text = "Journal not found or has been deleted"
  /\ currentUser # NoUser
  /\ KnownIds = Ids(SAMPLE_JOURNALS)

(* C27: the create that a submit starts carries as tags the pieces between
   the commas of the tags input, each trimmed, in input order, none left out
   (for an input that is not blank); and the journal the create puts at the
   head of userJournals has the tags the create carries *)
C27_TagsVerbatim ==
  [][/\ (submitEvent /\ trim(fields.tags) # <<>>) =>
          \A q \in pending' \ pending :
            q.op = "create" => q.data.tags = mapTrim(split(fields.tags))
     /\ \A p \in pending, o \in Outcomes :
          createSettled(p, o) => userJournals'[1].tags = p.data.tags]_vars

(* C28: when the display language is changed to another language, every
   journal of userJournals and allJournals has a cached translation for that
   language when the view is rendered again, and every card of a journal that
   is not a sample shows the title with the language's marker *)
C28_LanguageChangeTranslates ==
  [][\A lang \in Langs :
       (languageChanged(lang) /\ lang # currentLanguage) =>
         /\ \A i \in DOMAIN userJournals' :
              lang \in DOMAIN translationsOf(userJournals'[i])
         /\ \A i \in DOMAIN allJournals' :
              lang \in DOMAIN translationsOf(allJournals'[i])
         /\ \A i \in DOMAIN display' :
              ~startsWith(display'[i].id, "sample-") =>
                getTranslatedJournalData(display'[i], lang).title =
                  marker(lang) \o display'[i].title]_vars

(* C29: when an update has succeeded, the card of the updated journal shows,
   in every display language, the new title and content, as they are or
   with the language's marker in front *)
C29_UpdateShownInEveryLanguage ==
  [][\A p \in pending :
       updateSettled(p, "ok") =>
         \A lang \in Langs, i \in DOMAIN display' :
           display'[i].id = p.id =>
             LET shown == getTranslatedJournalData(display'[i], lang) IN
             /\ shown.title \in {p.data.title, marker(lang) \o p.data.title}
             /\ shown.content \in
                  {p.data.content, marker(lang) \o p.data.content}]_vars

(* C30: once the auth provider has reported, for the first time, that nobody
   is signed in, the display eventually shows SAMPLE_JOURNALS (unless somebody
   signs in first), whether the report came before or after the journal
   module registered its listener *)
C30_GuestEventuallySeesSamples ==
  guestAtBoot ~> (display = SAMPLE_JOURNALS \/ currentUser # NoUser)

(* the entries of a list that hold the journal a create call p submitted *)
createdBy(seq, p) ==
  {i \in DOMAIN seq : seq[i].id \in {DocId(p.sub), LocalId(p.sub)}}

(* C31: when a create settles, every record of the submitted journal (remote
   document, Fallback Store record, userJournals entry) carries the uid of the
   user who was signed in at the submit, and a create whose remote call
   failed leaves the journal in the Fallback Store, whoever is signed in by
   then *)
C31_SubmitterOwnsTheJournal ==
  [][\A p \in pending, o \in Outcomes :
       createSettled(p, o) =>
         /\ \A i \in createdBy(remote', p) : remote'[i].userId = p.uid
         /\ \A i \in createdBy(localJournals', p) : localJournals'[i].userId = p.uid
         /\ \A i \in createdBy(userJournals', p) : userJournals'[i].userId = p.uid
         /\ o = "error" => createdBy(localJournals', p) # {}]_vars

(* C32: when the user declines the restore prompt the stored draft is removed,
   and as long as the user has typed nothing since, a tick of the auto-save
   timer leaves the storage without a draft *)
C32_DeclinedDraftStaysDiscarded ==
  [][/\ confirmAnswered(FALSE) => draft' = NoDraft
     /\ (autoSaveTick /\ recovery = "declined") => draft' = NoDraft]_vars

(* C33: recoverDraft removes a stored draft older than MAX_DRAFT_AGE and
   leaves the form fields and the journal id as they were; a draft that is
   not older is kept and the form gets its title, content, tags and journal
   id *)
C33_OnlyFreshDraftsRestored ==
  [][(recoverDraft /\ draft # NoDraft) =>
       IF now - draft[1].savedAt > MAX_DRAFT_AGE
       THEN draft' = NoDraft /\ fields' = fields /\ formId' = formId
       ELSE /\ draft' = draft
            /\ fields'.title = draft[1].title
            /\ fields'.content = draft[1].content
            /\ fields'.tags = draft[1].tags
            /\ formId' = draft[1].journalId]_vars

C33_Witness ==
  /\ recovery = "prompt"
  /\ draft # NoDraft
  /\ now - draft[1].savedAt = MAX_DRAFT_AGE
  /\ fields.title = <<"T", "1">>
  /\ fields.tags = <<"x">>
  /\ formId = DocId(0)

(* C34: no step calls a listener whose unsubscribe function had been called
   before the step, be it for an auth-state change or as the deferred initial
   call of addAuthStateListener *)
C34_UnsubscribedNeverCalled ==
  [][\A i \in DOMAIN authState'.called :
       authState'.called[i].listener \notin authState.unsubscribed]_vars

(* C35: after each auth-state change handled by the callback of
   initAuthState, isUserLoggedIn() is true exactly when getCurrentUser() is
   not null, and 'userUid' holds that user's uid, or is absent when nobody is
   signed in *)
C35_StorageFollowsAuthState ==
  [][\A user \in Users \cup {NoUser} :
       authChanged(user) =>
         /\ isUserLoggedIn' <=> getCurrentUser' # NoUser
         /\ authState'.userUid =
              IF getCurrentUser' # NoUser THEN getCurrentUser' ELSE NoItem]_vars

C35_Witness ==
  /\ authState.changes = 2
  /\ getCurrentUser = NoUser
  /\ ~isUserLoggedIn
  /\ authState.userUid = NoItem
  /\ authState.called # <<>>

(* C36: when a sign-out stops the tracking and at least 5 seconds have gone
   by since the last save, that step adds those seconds to the persisted
   total, or starts a save that carries them *)
C36_StopSavesTheLastSegment ==
  [][(/\ trackerAuthChanged(NoUser)
      /\ tracker.isTracking
      /\ tracker.lastSaveTime # NoTime
      /\ tracker.clock - tracker.lastSaveTime >= 5) =>
        \/ persistedTotal(tracker') =
             persistedTotal(tracker) + (tracker.clock - tracker.lastSaveTime)
        \/ \E s \in tracker'.saves \ tracker.saves :
             s.duration = tracker.clock - tracker.lastSaveTime]_vars

(* C37: during the first tracking session, whenever no save is under way, the
   persisted total is the number of seconds tracked up to the last save *)
C37_StoredTotalIsTrackedTime ==
  (/\ tracker.isTracking
   /\ tracker.sessions = 1
   /\ tracker.saves = {}
   /\ tracker.lastSaveTime # NoTime) =>
     persistedTotal(tracker) =
       tracker.tracked - (tracker.clock - tracker.lastSaveTime)

(* C38: after every step the Fallback Store holds no two records with the same
   id, and a step that removes no record leaves every record's id at its
   position: a write of an id the store holds replaces the record where it
   is, and a new id goes to the end *)
C38_OneRecordPerId ==
  [][/\ \A i, k \in DOMAIN localJournals' :
          localJournals'[i].id = localJournals'[k].id => i = k
     /\ Len(localJournals') >= Len(localJournals) =>
          \A i \in DOMAIN localJournals :
            localJournals'[i].id = localJournals[i].id]_vars

C38_Witness ==
  /\ message.text = "Journal updated locally!"
  /\ Len(localJournals) = 2
  /\ localJournals[1].id = LocalId(-1)
  /\ sameText(localJournals[1], EditedText)
  /\ localJournals[2] = StoredJournals[2]
====
